---- MODULE Spec2Model ----
(***************************************************************************)
(* Extraction-and-scheduling pipeline of parent-pal:                       *)
(*   src/parser/main.py  EventParser  (the extraction coordinator)         *)
(*   src/worker/main.py  ReminderWorker (calendar sync, reminders, push)   *)
(* Confidence values are kept in tenths (0.4 is 4): every comparison the   *)
(* code makes on the float sums gives the same answer on the tenths.       *)
(***************************************************************************)
EXTENDS Integers, Sequences, FiniteSets, TLC

\* ------------------------------------------------------------------ bounds
\* process kills followed by a restart, over a whole behaviour
MaxCrashes == 1
\* entries the calendar provider holds, over a whole behaviour
MaxCalendar == 3
\* Pub/Sub deliveries to the ingest function, over a whole behaviour
MaxDeliveries == 3
\* prefixes in front of the title of a subject line
MaxPrefixes == 3
MaxMatches == 3
MaxPushCalls == 6

\* ------------------------------------------------------- program constants
TitleWeight == 2
DateWeight == 4
LocationWeight == 2
PrepWeight == 2
MinViable == 4
EscalateThreshold == 7
max_retries == 3
\* reminder offsets before the start, in half hours: 24 h, 3 h, 30 min
Offset24h == 48
Offset3h == 6
Offset30min == 1
MaxPushRetries == 5
\* google_calendar_id = None, sent_at_ts = None
NoCalendarId == 0
NoSentAt == -1
OllamaConfidence == 8

Msgs == {"m1", "m2"}
Parsers == {"p1", "p2"}
Workers == {"w1", "w2"}
\* the instants, in half hours, the clock takes
Instants == {0, 2}
\* start instants of the events waiting for the worker: in 1 hour, in 25 hours
StartChoices == {2, 50}
NoMsg == "none"
\* instances of the ingest function handling a delivery
Handlers == {"h1", "h2"}
\* Gmail history ids the deliveries carry
HistoryIds == {"12345", "12346"}
\* mailbox addresses the deliveries carry, and the one auth.users holds
Addresses == {"test@example.com", "nonexistent@example.com"}
Users == [e \in {"test@example.com"} |-> "user123"]

\* What the four extractors of RegexParser find in a message (its subject and
\* body are represented by what the patterns match in them).
Features == [title : BOOLEAN, date : BOOLEAN, location : BOOLEAN, prep : BOOLEAN]

Feat(t, d, l, p) == [title |-> t, date |-> d, location |-> l, prep |-> p]

\* Messages of the store: one of every outcome class of RegexParser.parse.
SampleFeatures ==
    { Feat(TRUE, TRUE, TRUE, TRUE),      \* 1.0, candidate
      Feat(TRUE, TRUE, TRUE, FALSE),     \* 0.8, candidate
      Feat(TRUE, TRUE, FALSE, FALSE),    \* 0.6, candidate, escalated
      Feat(TRUE, FALSE, FALSE, FALSE),   \* 0.2, absent
      Feat(FALSE, TRUE, TRUE, TRUE) }    \* 0.8 but no title: TypeError, (None, 0.0)

VARIABLES
    inbound_emails,   \* [Msgs -> [processed, feat]]          table inbound_emails
    events,           \* Seq of rows [source_msg_id, status, title, google_calendar_id]
    ppc,              \* [Parsers -> control point of parse_queue / _process_email]
    pbatch,           \* [Parsers -> Seq(Msgs)]  emails of the batch the loop has not taken yet
    email,            \* [Parsers -> the email the loop body runs for]
    ollama_result,    \* [Parsers -> what _parse_with_ollama returned in this attempt]
    pfetched,         \* [Parsers -> SUBSET Msgs] emails the last fetch returned
    phandled,         \* [Parsers -> SUBSET Msgs] emails of the batch the loop body ran for
    pfailed,          \* [Parsers -> SUBSET Msgs] emails of the batch whose _process_email raised
    attempt,          \* [Parsers -> 0..max_retries-1]
    retry_delay,      \* [Parsers -> Nat]
    parsed_event,     \* [Parsers -> "none" | "regex" | "ollama"]
    calls,            \* [Parsers -> calls made since _process_email was entered]
    hadEvent,         \* [Parsers -> an event of the email existed when _process_email was entered]
    branch,           \* [Parsers -> how the last _process_email ended]
    okMarked,         \* emails marked processed with success=True
    failMarked,       \* emails marked processed with success=False
    crashes,          \* process kills so far
    reminders,        \* Seq of rows of table reminders
    expo_push_token,  \* users.expo_push_token of the user
    google_refresh_token, \* the user has a users.google_refresh_token
    calendar,         \* ids of the entries the calendar provider holds
    calendarCreated,  \* entries ever created at the calendar provider
    now,              \* the clock
    wpc,              \* [Workers -> control point of main / process_events / process_push_notifications]
    wbatch,           \* [Workers -> fetched records the loop has not taken yet]
    wcur,             \* [Workers -> the record the loop body runs for]
    wfetched,         \* [Workers -> ids the last fetch returned]
    whandled,         \* [Workers -> ids of the batch the loop body ran for]
    wfailed,          \* [Workers -> ids of the batch whose processing raised]
    calendar_event_id, \* [Workers -> result of _sync_to_google_calendar]
    exc,              \* [Workers -> the exception _process_single_event caught]
    calendar_calls,   \* [Workers -> the provider calls of the last _sync_to_google_calendar]
    subject,          \* the subject line given to _clean_subject, as its words
    cleaned_subject,  \* what _clean_subject returned for it
    subject_done,     \* _clean_subject has returned
    gmail_rows,       \* Seq of the rows store_email wrote: [gmail_history, user_id, processed]
    hpc,              \* [Handlers -> control point of handle_pubsub]
    request,          \* [Handlers -> the delivery handled: [history_id, email_address]]
    hsteps,           \* [Handlers -> the steps handle_pubsub has called for it]
    hexc,             \* [Handlers -> the exception class a step raised]
    inserted,         \* [Handlers -> what store_email returned]
    response,         \* [Handlers -> the response returned: [status, body]]
    deliveries,       \* deliveries so far
    email_body,       \* the date matches of the body given to RegexParser.parse, in text order
    dates,            \* what _extract_dates returned for it
    parsed_data,      \* the start_ts and end_ts RegexParser.parse took from dates
    dates_done,       \* RegexParser.parse has read the dates
    generated,        \* how self.ollama.generate ended for the email given to _parse_with_ollama
    ollama_parsed,    \* how _parse_with_ollama ended: not called, a ParsedEvent, None, or raised
    health,           \* [Parsers -> the health_check calls of the process and the last answer]
    published,        \* [Workers -> the last PushMessage the run gave to push_client.publish]
    push_count        \* publish calls so far for each reminder that is watched

pvars == <<ppc, pbatch, email, ollama_result, pfetched, phandled, pfailed, attempt, retry_delay,
           parsed_event, calls, hadEvent, branch>>
wvars == <<wpc, wbatch, wcur, wfetched, whandled, wfailed, calendar_event_id, exc>>
fvars == <<email_body, dates, parsed_data, dates_done, generated, ollama_parsed>>
cvars == <<subject, cleaned_subject, subject_done, fvars>>
wghost == <<published, push_count>>
gvars == <<health, wghost>>
tvars == <<cvars, gvars>>
ivars == <<gmail_rows, hpc, request, hsteps, hexc, inserted, response, deliveries>>
svars == <<reminders, expo_push_token, google_refresh_token, calendar, calendarCreated, now,
           calendar_calls, tvars, ivars>>
vars == <<inbound_emails, events, pvars, okMarked, failMarked, crashes, svars, wvars>>

\* ---------------------------------------------------------- RegexParser
Weight(b, w) == IF b THEN w ELSE 0

Confidence(f) ==
    Weight(f.title, TitleWeight) + Weight(f.date, DateWeight)
        + Weight(f.location, LocationWeight) + Weight(f.prep, PrepWeight)

\* ParsedEvent(**parsed_data) raises TypeError when title, start_ts or end_ts is
\* missing from parsed_data.
ParsedEventTypeError(f) == ~f.title \/ ~f.date

\* RegexParser.parse: <<candidate present, confidence returned>>
RegexParserParse(f) ==
    IF Confidence(f) >= MinViable
    THEN IF ParsedEventTypeError(f) THEN <<FALSE, 0>> ELSE <<TRUE, Confidence(f)>>
    ELSE <<FALSE, Confidence(f)>>

\* the threshold taken for a percentage
NeedsOllama_Percent(confidence) == confidence < 70

\* line 357
NeedsOllama(confidence) == confidence < EscalateThreshold

\* ------------------------------------------------------------- the store
\* the lookup made on another column
ExistingEvents_WrongColumn(ev, m) == {i \in DOMAIN ev : ev[i].title = m}

\* lines 347-348: the events whose source_msg_id is the email's id
ExistingEvents(ev, m) == {i \in DOMAIN ev : ev[i].source_msg_id = m}

EventsOf(m) == {i \in DOMAIN events : events[i].source_msg_id = m}

InsertStatus(parsed) == IF parsed = "none" THEN "needs_review" ELSE "upcoming"

EventRow(m, parsed) ==
    [source_msg_id |-> m,
     status |-> InsertStatus(parsed),
     title |-> IF parsed = "none" THEN "review" ELSE parsed,
     start_ts |-> 0,
     aware |-> FALSE,
     google_calendar_id |-> NoCalendarId,
     error_message |-> "null"]

NoRecord == [id |-> 0]

NoRequest == [history_id |-> "none", email_address |-> "none"]

NoResponse == [status |-> 0, body |-> "none"]

\* calls made since _process_email was entered, and the delays slept (line 381)
NoPublish == [reminder_id |-> 0, to |-> "none"]

NotProbed == [probes |-> 0, answer |-> "none"]

NoCalls == [regex |-> 0, ollama |-> 0, insert |-> 0, mark |-> 0, slept |-> <<>>]

CurEmail(p) == email[p]

Perms(S) == {s \in [1..Cardinality(S) -> S] : \A a \in S : \E i \in DOMAIN s : s[i] = a}

\* ------------------------------------------------------------------ Init
\* every process before its first step
InitProcessVars ==
    /\ ppc = [p \in Parsers |-> "start"]
    /\ pbatch = [p \in Parsers |-> <<>>]
    /\ email = [p \in Parsers |-> NoMsg]
    /\ ollama_result = [p \in Parsers |-> "not called"]
    /\ pfetched = [p \in Parsers |-> {}]
    /\ phandled = [p \in Parsers |-> {}]
    /\ pfailed = [p \in Parsers |-> {}]
    /\ attempt = [p \in Parsers |-> 0]
    /\ retry_delay = [p \in Parsers |-> 1]
    /\ parsed_event = [p \in Parsers |-> "none"]
    /\ calls = [p \in Parsers |-> NoCalls]
    /\ hadEvent = [p \in Parsers |-> FALSE]
    /\ branch = [p \in Parsers |-> "none"]
    /\ okMarked = {}
    /\ failMarked = {}
    /\ now = 0
    /\ wpc = [w \in Workers |-> "idle"]
    /\ wbatch = [w \in Workers |-> {}]
    /\ wcur = [w \in Workers |-> NoRecord]
    /\ wfetched = [w \in Workers |-> {}]
    /\ whandled = [w \in Workers |-> {}]
    /\ wfailed = [w \in Workers |-> {}]
    /\ calendar_event_id = [w \in Workers |-> NoCalendarId]
    /\ exc = [w \in Workers |-> "none"]
    /\ calendar_calls = [w \in Workers |-> <<>>]
    /\ cleaned_subject = <<>>
    /\ subject_done = FALSE
    /\ gmail_rows = <<>>
    /\ hpc = [h \in Handlers |-> "idle"]
    /\ request = [h \in Handlers |-> NoRequest]
    /\ hsteps = [h \in Handlers |-> <<>>]
    /\ hexc = [h \in Handlers |-> "none"]
    /\ inserted = [h \in Handlers |-> "not called"]
    /\ response = [h \in Handlers |-> NoResponse]
    /\ deliveries = 0
    /\ dates = <<>>
    /\ parsed_data = [start_ts |-> "none", end_ts |-> "none"]
    /\ dates_done = FALSE
    /\ ollama_parsed = [kind |-> "not called"]
    /\ health = [p \in Parsers |-> NotProbed]
    /\ published = [w \in Workers |-> NoPublish]

\* no subject line is being cleaned, no body is being read
InitProcesses ==
    /\ InitProcessVars
    /\ subject = <<>>
    /\ email_body = <<>>
    /\ generated = [kind |-> "not called"]
    /\ push_count = <<>>

\* The ingest service stored the messages (processed = false); no event yet.
InitParser ==
    /\ InitProcesses
    /\ crashes = 0
    /\ inbound_emails \in [Msgs -> [processed : {FALSE}, processed_at : {"null"}, feat : SampleFeatures]]
    /\ events = <<>>
    /\ reminders = <<>>
    /\ expo_push_token = "null"
    /\ google_refresh_token = FALSE
    /\ calendar = {}
    /\ calendarCreated = 0

\* ------------------------------------------------------------ parse_queue
\* line 285: the liveness probe, once, before the loop
HealthCheck_IgnoreAnswer(p) ==
    /\ ppc[p] = "start"
    /\ \E up \in BOOLEAN :
          /\ health' = [health EXCEPT ![p] = [probes |-> @.probes + 1,
                                              answer |-> IF up THEN "up" ELSE "down"]]
          /\ ppc' = [ppc EXCEPT ![p] = "poll"]
    /\ UNCHANGED <<inbound_emails, events, pbatch, email, ollama_result, pfetched,
                   phandled, pfailed, attempt, retry_delay, parsed_event, calls, hadEvent,
                   branch, okMarked, failMarked, crashes, reminders, expo_push_token,
                   google_refresh_token, calendar, calendarCreated, now, calendar_calls,
                   cvars, wghost, ivars, wvars>>

HealthCheck(p) ==
    /\ ppc[p] = "start"
    /\ \E up \in BOOLEAN :
          /\ health' = [health EXCEPT ![p] = [probes |-> @.probes + 1,
                                              answer |-> IF up THEN "up" ELSE "down"]]
          /\ ppc' = [ppc EXCEPT ![p] = IF up THEN "poll" ELSE "exit"]
    /\ UNCHANGED <<inbound_emails, events, pbatch, email, ollama_result, pfetched,
                   phandled, pfailed, attempt, retry_delay, parsed_event, calls, hadEvent,
                   branch, okMarked, failMarked, crashes, reminders, expo_push_token,
                   google_refresh_token, calendar, calendarCreated, now, calendar_calls,
                   cvars, wghost, ivars, wvars>>

\* lines 292-299 with _get_unprocessed_emails: a failed query is an empty batch
GetUnprocessedEmails(p) ==
    /\ ppc[p] = "poll"
    /\ \/ UNCHANGED <<ppc, pbatch, pfetched, phandled, pfailed>>
       \/ /\ \E order \in Perms({m \in Msgs : ~inbound_emails[m].processed}) :
                /\ order # <<>>
                /\ pbatch' = [pbatch EXCEPT ![p] = order]
                /\ pfetched' = [pfetched EXCEPT ![p] = {order[i] : i \in DOMAIN order}]
          /\ phandled' = [phandled EXCEPT ![p] = {}]
          /\ pfailed' = [pfailed EXCEPT ![p] = {}]
          /\ ppc' = [ppc EXCEPT ![p] = "pick"]
    /\ UNCHANGED <<inbound_emails, events, email, ollama_result, attempt, retry_delay,
                   parsed_event, calls, hadEvent, branch, okMarked, failMarked, crashes,
                   svars, wvars>>

\* line 301: the for loop takes the next email and enters _process_email
\* (lines 341-342), or the batch is over (line 309)
ParseQueueNext(p) ==
    /\ ppc[p] = "pick"
    /\ \/ /\ pbatch[p] = <<>>
          /\ ppc' = [ppc EXCEPT ![p] = "poll"]
          /\ UNCHANGED <<pbatch, email, ollama_result, attempt, retry_delay,
                         parsed_event, calls, hadEvent, branch>>
       \/ /\ pbatch[p] # <<>>
          /\ email' = [email EXCEPT ![p] = Head(pbatch[p])]
          /\ pbatch' = [pbatch EXCEPT ![p] = Tail(@)]
          /\ ollama_result' = [ollama_result EXCEPT ![p] = "not called"]
          /\ ppc' = [ppc EXCEPT ![p] = "check"]
          /\ attempt' = [attempt EXCEPT ![p] = 0]
          /\ retry_delay' = [retry_delay EXCEPT ![p] = 1]
          /\ parsed_event' = [parsed_event EXCEPT ![p] = "none"]
          /\ calls' = [calls EXCEPT ![p] = NoCalls]
          /\ hadEvent' = [hadEvent EXCEPT ![p] = EventsOf(Head(pbatch[p])) # {}]
          /\ branch' = [branch EXCEPT ![p] = "running"]
    /\ UNCHANGED <<inbound_emails, events, pfetched, phandled, pfailed,
                   okMarked, failMarked, crashes, svars, wvars>>

\* the success flag written into the processed column
ProcessedUpdate_Flag(success) == [processed |-> success, processed_at |-> "set"]

\* lines 474-477: the columns of the update; processed_at is the time of the call
ProcessedUpdate(success) == [processed |-> TRUE, processed_at |-> "set"]

\* _mark_email_processed (lines 471-479): the update, or an error that is logged
\* and swallowed. The success flag is not written.
MarkEmailProcessed(m, success) ==
    \/ /\ inbound_emails' = [inbound_emails EXCEPT
                                ![m].processed = ProcessedUpdate(success).processed,
                                ![m].processed_at = ProcessedUpdate(success).processed_at]
       /\ okMarked' = IF success THEN okMarked \cup {m} ELSE okMarked
       /\ failMarked' = IF success THEN failMarked ELSE failMarked \cup {m}
    \/ UNCHANGED <<inbound_emails, okMarked, failMarked>>

Count(p, what) == [calls EXCEPT ![p][what] = @ + 1]

\* the duplicate branch without its return: the attempt goes on
CheckExisting_NoReturn(p) ==
    /\ ppc[p] = "check"
    /\ \/ /\ ppc' = [ppc EXCEPT ![p] = "except"]
          /\ UNCHANGED branch
       \/ /\ ppc' = [ppc EXCEPT ![p] = "regex"]
          /\ UNCHANGED branch
    /\ UNCHANGED <<inbound_emails, events, pbatch, email, ollama_result, pfetched,
                   phandled, pfailed, attempt, retry_delay, parsed_event, calls, hadEvent,
                   okMarked, failMarked, crashes, svars, wvars>>

\* lines 346-351: the duplicate check of an attempt
CheckExisting(p) ==
    /\ ppc[p] = "check"
    /\ \/ /\ ppc' = [ppc EXCEPT ![p] = "except"]
          /\ UNCHANGED branch
       \/ /\ ExistingEvents(events, CurEmail(p)) # {}
          /\ ppc' = [ppc EXCEPT ![p] = "mark_ok"]
          /\ branch' = [branch EXCEPT ![p] = "duplicate"]
       \/ /\ ExistingEvents(events, CurEmail(p)) = {}
          /\ ppc' = [ppc EXCEPT ![p] = "regex"]
          /\ UNCHANGED branch
    /\ UNCHANGED <<inbound_emails, events, pbatch, email, ollama_result, pfetched,
                   phandled, pfailed, attempt, retry_delay, parsed_event, calls, hadEvent,
                   okMarked, failMarked, crashes, svars, wvars>>

\* lines 354-358: the regex parse and the escalation decision
RegexParse(p) ==
    /\ ppc[p] = "regex"
    /\ LET r == RegexParserParse(inbound_emails[CurEmail(p)].feat) IN
          /\ parsed_event' = [parsed_event EXCEPT ![p] = IF r[1] THEN "regex" ELSE "none"]
          /\ ppc' = [ppc EXCEPT ![p] = IF NeedsOllama(r[2]) THEN "ollama" ELSE "insert"]
    /\ calls' = Count(p, "regex")
    /\ UNCHANGED <<inbound_emails, events, pbatch, email, ollama_result, pfetched,
                   phandled, pfailed, attempt, retry_delay, hadEvent, branch, okMarked,
                   failMarked, crashes, svars, wvars>>

\* the regex candidate kept when _parse_with_ollama returns None
OllamaCandidate_KeepRegex(result, regex_candidate) ==
    IF result = "event" THEN "ollama" ELSE regex_candidate

\* line 359: the result of _parse_with_ollama replaces the regex candidate,
\* also when it is None
OllamaCandidate(result, regex_candidate) == IF result = "event" THEN "ollama" ELSE "none"

\* a failed call of the generative service raised into the attempt
ParseWithOllama_Raises(p) ==
    /\ ppc[p] = "ollama"
    /\ \E r \in {"event", "absent"} :
          /\ ollama_result' = [ollama_result EXCEPT ![p] = r]
          /\ parsed_event' = [parsed_event EXCEPT ![p] = OllamaCandidate(r, @)]
          /\ ppc' = [ppc EXCEPT ![p] = IF r = "event" THEN "insert" ELSE "except"]
    /\ calls' = Count(p, "ollama")
    /\ UNCHANGED <<inbound_emails, events, pbatch, email, pfetched, phandled, pfailed,
                   attempt, retry_delay, hadEvent, branch, okMarked, failMarked, crashes,
                   svars, wvars>>

\* line 359 with _parse_with_ollama (lines 387-420): a candidate, or absent on
\* invalid JSON, a timeout or a transport error; it never raises
ParseWithOllama(p) ==
    /\ ppc[p] = "ollama"
    /\ \E r \in {"event", "absent"} :
          /\ ollama_result' = [ollama_result EXCEPT ![p] = r]
          /\ parsed_event' = [parsed_event EXCEPT ![p] = OllamaCandidate(r, @)]
    /\ ppc' = [ppc EXCEPT ![p] = "insert"]
    /\ calls' = Count(p, "ollama")
    /\ UNCHANGED <<inbound_emails, events, pbatch, email, pfetched, phandled, pfailed,
                   attempt, retry_delay, hadEvent, branch, okMarked, failMarked, crashes,
                   svars, wvars>>

\* _insert_event logging its error without raising it again
InsertEvent_Swallow(p) ==
    /\ ppc[p] = "insert"
    /\ \/ UNCHANGED events
       \/ events' = Append(events, EventRow(CurEmail(p), parsed_event[p]))
    /\ ppc' = [ppc EXCEPT ![p] = "mark_ok"]
    /\ branch' = [branch EXCEPT ![p] =
                      IF parsed_event[p] = "none" THEN "review" ELSE "event"]
    /\ calls' = Count(p, "insert")
    /\ UNCHANGED <<inbound_emails, pbatch, email, ollama_result, pfetched, phandled,
                   pfailed, attempt, retry_delay, parsed_event, hadEvent, okMarked,
                   failMarked, crashes, svars, wvars>>

\* lines 361-367 / 371-373 with _insert_event (lines 439-469): the insert, or
\* an error that is logged and raised again
InsertEvent(p) ==
    /\ ppc[p] = "insert"
    /\ \/ /\ ppc' = [ppc EXCEPT ![p] = "except"]
          /\ UNCHANGED <<events, branch>>
       \/ /\ events' = Append(events, EventRow(CurEmail(p), parsed_event[p]))
          /\ ppc' = [ppc EXCEPT ![p] = "mark_ok"]
          /\ branch' = [branch EXCEPT ![p] =
                            IF parsed_event[p] = "none" THEN "review" ELSE "event"]
    /\ calls' = Count(p, "insert")
    /\ UNCHANGED <<inbound_emails, pbatch, email, ollama_result, pfetched, phandled,
                   pfailed, attempt, retry_delay, parsed_event, hadEvent, okMarked,
                   failMarked, crashes, svars, wvars>>

\* lines 350-351, 368-370, 374-376: mark processed and return to the loop
MarkProcessedReturn(p) ==
    /\ ppc[p] = "mark_ok"
    /\ MarkEmailProcessed(CurEmail(p), TRUE)
    /\ calls' = Count(p, "mark")
    /\ ppc' = [ppc EXCEPT ![p] = "pick"]
    /\ phandled' = [phandled EXCEPT ![p] = @ \cup {CurEmail(p)}]
    /\ UNCHANGED <<events, pbatch, email, ollama_result, pfetched, pfailed, attempt,
                   retry_delay, parsed_event, hadEvent, branch, crashes, svars, wvars>>

\* the except clause without the last-attempt branch: it always tries again
ProcessEmailExcept_RetryForever(p) ==
    /\ ppc[p] = "except"
    /\ retry_delay' = [retry_delay EXCEPT ![p] = IF @ < 4 THEN @ * 2 ELSE @]
    /\ ollama_result' = [ollama_result EXCEPT ![p] = "not called"]
    /\ ppc' = [ppc EXCEPT ![p] = "check"]
    /\ UNCHANGED <<inbound_emails, okMarked, failMarked, calls, branch, pfailed, attempt,
                   events, pbatch, email, pfetched, phandled, parsed_event, hadEvent,
                   crashes, svars, wvars>>

\* the last attempt taken for one more to come: range(max_retries + 1)
ProcessEmailExcept_OneMore(p) ==
    /\ ppc[p] = "except"
    /\ \/ /\ attempt[p] < max_retries
          /\ attempt' = [attempt EXCEPT ![p] = @ + 1]
          /\ calls' = [calls EXCEPT ![p].slept = Append(@, retry_delay[p])]
          /\ retry_delay' = [retry_delay EXCEPT ![p] = @ * 2]
          /\ ollama_result' = [ollama_result EXCEPT ![p] = "not called"]
          /\ ppc' = [ppc EXCEPT ![p] = "check"]
          /\ UNCHANGED <<inbound_emails, okMarked, failMarked, branch, pfailed>>
       \/ /\ ~(attempt[p] < max_retries)
          /\ MarkEmailProcessed(CurEmail(p), FALSE)
          /\ calls' = Count(p, "mark")
          /\ branch' = [branch EXCEPT ![p] = "failed"]
          /\ pfailed' = [pfailed EXCEPT ![p] = @ \cup {CurEmail(p)}]
          /\ ppc' = [ppc EXCEPT ![p] = "loop_except"]
          /\ UNCHANGED <<attempt, retry_delay, ollama_result>>
    /\ UNCHANGED <<events, pbatch, email, pfetched, phandled, parsed_event, hadEvent,
                   crashes, svars, wvars>>

\* lines 378-385: the except clause of an attempt
ProcessEmailExcept(p) ==
    /\ ppc[p] = "except"
    /\ \/ /\ attempt[p] < max_retries - 1
          /\ attempt' = [attempt EXCEPT ![p] = @ + 1]
          /\ calls' = [calls EXCEPT ![p].slept = Append(@, retry_delay[p])]
          /\ retry_delay' = [retry_delay EXCEPT ![p] = @ * 2]
          /\ ollama_result' = [ollama_result EXCEPT ![p] = "not called"]
          /\ ppc' = [ppc EXCEPT ![p] = "check"]
          /\ UNCHANGED <<inbound_emails, okMarked, failMarked, branch, pfailed>>
       \/ /\ ~(attempt[p] < max_retries - 1)
          /\ MarkEmailProcessed(CurEmail(p), FALSE)
          /\ calls' = Count(p, "mark")
          /\ branch' = [branch EXCEPT ![p] = "failed"]
          /\ pfailed' = [pfailed EXCEPT ![p] = @ \cup {CurEmail(p)}]
          /\ ppc' = [ppc EXCEPT ![p] = "loop_except"]
          /\ UNCHANGED <<attempt, retry_delay, ollama_result>>
    /\ UNCHANGED <<events, pbatch, email, pfetched, phandled, parsed_event, hadEvent,
                   crashes, svars, wvars>>

\* the except clause around the loop instead of inside it: the batch is left
ParseQueueExcept_Abort(p) ==
    /\ ppc[p] = "loop_except"
    /\ MarkEmailProcessed(CurEmail(p), FALSE)
    /\ calls' = Count(p, "mark")
    /\ ppc' = [ppc EXCEPT ![p] = "poll"]
    /\ pbatch' = [pbatch EXCEPT ![p] = <<>>]
    /\ phandled' = [phandled EXCEPT ![p] = @ \cup {CurEmail(p)}]
    /\ UNCHANGED <<events, email, ollama_result, pfetched, pfailed, attempt,
                   retry_delay, parsed_event, hadEvent, branch, crashes, svars, wvars>>

\* lines 304-307: the except clause of the batch loop; the loop goes on
ParseQueueExcept(p) ==
    /\ ppc[p] = "loop_except"
    /\ MarkEmailProcessed(CurEmail(p), FALSE)
    /\ calls' = Count(p, "mark")
    /\ ppc' = [ppc EXCEPT ![p] = "pick"]
    /\ phandled' = [phandled EXCEPT ![p] = @ \cup {CurEmail(p)}]
    /\ UNCHANGED <<events, pbatch, email, ollama_result, pfetched, pfailed, attempt,
                   retry_delay, parsed_event, hadEvent, branch, crashes, svars, wvars>>

\* The process is killed and started again: main() (lines 481-484). Nothing of
\* the process survives; the store does.
ParserRestart(p) ==
    /\ ppc[p] # "start"
    /\ crashes < MaxCrashes
    /\ crashes' = crashes + 1
    /\ ppc' = [ppc EXCEPT ![p] = "start"]
    /\ pbatch' = [pbatch EXCEPT ![p] = <<>>]
    /\ email' = [email EXCEPT ![p] = NoMsg]
    /\ ollama_result' = [ollama_result EXCEPT ![p] = "not called"]
    /\ pfetched' = [pfetched EXCEPT ![p] = {}]
    /\ phandled' = [phandled EXCEPT ![p] = {}]
    /\ pfailed' = [pfailed EXCEPT ![p] = {}]
    /\ attempt' = [attempt EXCEPT ![p] = 0]
    /\ retry_delay' = [retry_delay EXCEPT ![p] = 1]
    /\ parsed_event' = [parsed_event EXCEPT ![p] = "none"]
    /\ calls' = [calls EXCEPT ![p] = NoCalls]
    /\ hadEvent' = [hadEvent EXCEPT ![p] = FALSE]
    /\ branch' = [branch EXCEPT ![p] = "none"]
    /\ health' = [health EXCEPT ![p] = NotProbed]
    /\ UNCHANGED <<inbound_emails, events, okMarked, failMarked, reminders, expo_push_token,
                   google_refresh_token, calendar, calendarCreated, now, calendar_calls,
                   cvars, wghost, ivars, wvars>>

ParserStep(p) ==
    \/ HealthCheck(p)
    \/ GetUnprocessedEmails(p)
    \/ ParseQueueNext(p)
    \/ CheckExisting(p)
    \/ RegexParse(p)
    \/ ParseWithOllama(p)
    \/ InsertEvent(p)
    \/ MarkProcessedReturn(p)
    \/ ProcessEmailExcept(p)
    \/ ParseQueueExcept(p)
    \/ ParserRestart(p)

NextParser == ParserStep("p1")

SpecParser == InitParser /\ [][NextParser]_vars

\* Two parser processes (two runs of main(), lines 481-484) poll the same store:
\* m1 is unprocessed, m2 was processed earlier.
InitParsers ==
    /\ InitProcesses
    /\ crashes = 0
    /\ \E f \in {Feat(TRUE, TRUE, TRUE, TRUE), Feat(TRUE, TRUE, FALSE, FALSE)} :
          inbound_emails = [m \in Msgs |-> [processed |-> (m = "m2"),
                                               processed_at |-> IF m = "m2" THEN "set" ELSE "null",
                                               feat |-> f]]
    /\ events = <<>>
    /\ reminders = <<>>
    /\ expo_push_token = "null"
    /\ google_refresh_token = FALSE
    /\ calendar = {}
    /\ calendarCreated = 0

\* _mark_email_processed is called by the step taken
MarkCalled(p) ==
    \/ ppc[p] \in {"mark_ok", "loop_except"}
    \/ ppc[p] = "except" /\ ~(attempt[p] < max_retries - 1)

\* the update of lines 474-477 is executed without an error whenever it is called
ProcessedWriteSucceeds ==
    \A p \in Parsers :
        (MarkCalled(p) /\ ppc'[p] \notin {ppc[p], "start"})
            => inbound_emails'[email[p]].processed

\* parse_queue with every processed write succeeding. The coroutine is the only
\* task of its event loop (asyncio.run, line 484): every await returns or
\* raises, so a step that can be taken is taken.
ParserStepLive(p) ==
    \/ HealthCheck(p)
    \/ GetUnprocessedEmails(p)
    \/ ParseQueueNext(p)
    \/ CheckExisting(p)
    \/ RegexParse(p)
    \/ ParseWithOllama(p)
    \/ InsertEvent(p)
    \/ MarkProcessedReturn(p) /\ ProcessedWriteSucceeds
    \/ ProcessEmailExcept(p) /\ ProcessedWriteSucceeds
    \/ ParseQueueExcept(p) /\ ProcessedWriteSucceeds
    \/ ParserRestart(p)

NextParserLive == ParserStepLive("p1")

SpecParserLive == InitParser /\ [][NextParserLive]_vars /\ WF_vars(NextParserLive)

\* One message waits for the parser: its subject and body are any combination
\* of what the four extractors find.
InitRegex ==
    /\ InitProcesses
    /\ crashes = 0
    /\ \E f \in Features :
          inbound_emails = [m \in Msgs |-> [processed |-> (m = "m2"),
                                               processed_at |-> IF m = "m2" THEN "set" ELSE "null",
                                               feat |-> f]]
    /\ events = <<>>
    /\ reminders = <<>>
    /\ expo_push_token = "null"
    /\ google_refresh_token = FALSE
    /\ calendar = {}
    /\ calendarCreated = 0

SpecRegex == InitRegex /\ [][NextParser]_vars

\* Two messages wait for the parser, the second a complete one.
InitParserFair ==
    /\ InitParser
    /\ inbound_emails["m2"].feat = Feat(TRUE, TRUE, TRUE, TRUE)

\* parse_queue with nothing assumed of the store: every call may fail
SpecParserFair == InitParserFair /\ [][NextParser]_vars /\ WF_vars(NextParser)

NextParsers == \E p \in Parsers : ParserStep(p)

SpecParsers == InitParsers /\ [][NextParsers]_vars

\* ------------------------------------------------------- ReminderWorker
pstate == <<inbound_emails, pvars, okMarked, failMarked, calendar_calls, tvars, ivars>>

\* EventRecord built by _get_pending_events (lines 202-213)
EventRecord(i) ==
    [id |-> i, start_ts |-> events[i].start_ts, aware |-> events[i].aware,
     google_calendar_id |-> events[i].google_calendar_id]

\* the query taking the rows left for review as well
PendingEvents_WithReview ==
    {i \in DOMAIN events : events[i].status \in {"pending", "needs_review"}}

\* the query of _get_pending_events (line 198)
PendingEvents == {i \in DOMAIN events : events[i].status = "pending"}

\* the query without its status filter
PendingReminders_NoStatusFilter ==
    {i \in DOMAIN reminders :
        /\ reminders[i].notify_at_ts <= now
        /\ reminders[i].sent_at_ts = NoSentAt}

\* the query of _get_pending_reminders (lines 414-418)
PendingReminders ==
    {i \in DOMAIN reminders :
        /\ reminders[i].notify_at_ts <= now
        /\ reminders[i].sent_at_ts = NoSentAt
        /\ reminders[i].status = "pending"}

\* ReminderRecord built by _get_pending_reminders (lines 422-432)
ReminderRecord(i) ==
    [id |-> i, push_token |-> reminders[i].push_token,
     retry_count |-> reminders[i].retry_count]

\* lines 311-315
ReminderOffsets == <<Offset24h, Offset3h, Offset30min>>

\* the skip of the reminder times already past left out
IsFuture_NoSkip(notify_time, t) == TRUE

\* lines 325-328: a reminder time at or before the clock is skipped
IsFuture(notify_time, t) == ~(notify_time <= t)

\* lines 324-342: reminders_to_insert
RemindersToInsert(e, t, token) ==
    LET keep(o) == IsFuture(e.start_ts - o, t)
        row(o) == [event_id |-> e.id, notify_at_ts |-> e.start_ts - o,
                   push_token |-> token, status |-> "pending", retry_count |-> 0]
        offs == SelectSeq(ReminderOffsets, keep)
    IN [k \in DOMAIN offs |-> row(offs[k])]

SameSlot(a, b) == a.event_id = b.event_id /\ a.notify_at_ts = b.notify_at_ts

\* a plain insert in place of the upsert
Upsert_Insert(rows, r) ==
    Append(rows, [event_id |-> r.event_id, notify_at_ts |-> r.notify_at_ts,
                  push_token |-> r.push_token, status |-> r.status,
                  retry_count |-> r.retry_count, sent_at_ts |-> NoSentAt,
                  error_message |-> "null"])

\* upsert(..., on_conflict='event_id,notify_at_ts') of one row (lines 346-349):
\* the columns given replace those of the row in the slot; sent_at_ts and
\* error_message are not among them
Upsert(rows, r) ==
    IF \E i \in DOMAIN rows : SameSlot(rows[i], r)
    THEN [i \in DOMAIN rows |->
             IF SameSlot(rows[i], r)
             THEN [rows[i] EXCEPT !.push_token = r.push_token,
                                  !.status = r.status,
                                  !.retry_count = r.retry_count]
             ELSE rows[i]]
    ELSE Append(rows, [event_id |-> r.event_id, notify_at_ts |-> r.notify_at_ts,
                       push_token |-> r.push_token, status |-> r.status,
                       retry_count |-> r.retry_count, sent_at_ts |-> NoSentAt,
                       error_message |-> "null"])

RECURSIVE UpsertAll(_, _)
UpsertAll(rows, new) ==
    IF new = <<>> THEN rows ELSE UpsertAll(Upsert(rows, Head(new)), Tail(new))

CurRecord(w) == wcur[w]

\* The loop body is over for the current record: the for loop goes on.
LoopContinue(w) ==
    /\ whandled' = [whandled EXCEPT ![w] = @ \cup {CurRecord(w).id}]
    /\ UNCHANGED <<wbatch, wcur>>

\* process_events, lines 170-178 with _get_pending_events: a failed query ends
\* process_events (the outer except, lines 191-193), as does an empty result
ProcessEvents(w) ==
    /\ wpc[w] = "idle"
    /\ \/ /\ wpc' = [wpc EXCEPT ![w] = "push_start"]
          /\ UNCHANGED <<wbatch, wfetched, whandled, wfailed>>
       \/ /\ PendingEvents = {}
          /\ wpc' = [wpc EXCEPT ![w] = "push_start"]
          /\ UNCHANGED <<wbatch, wfetched, whandled, wfailed>>
       \/ /\ PendingEvents # {}
          /\ wbatch' = [wbatch EXCEPT ![w] = {EventRecord(i) : i \in PendingEvents}]
          /\ wfetched' = [wfetched EXCEPT ![w] = PendingEvents]
          /\ whandled' = [whandled EXCEPT ![w] = {}]
          /\ wfailed' = [wfailed EXCEPT ![w] = {}]
          /\ wpc' = [wpc EXCEPT ![w] = "ev_pick"]
    /\ UNCHANGED <<events, crashes, svars, wcur, calendar_event_id, exc, pstate>>

\* The for loop takes the next record, in the order the query returned them
\* (any order), or the batch is over.
LoopNext(w, body, over) ==
    \/ /\ wbatch[w] = {}
       /\ wpc' = [wpc EXCEPT ![w] = over]
       /\ UNCHANGED <<wbatch, wcur>>
    \/ \E r \in wbatch[w] :
          /\ wcur' = [wcur EXCEPT ![w] = r]
          /\ wbatch' = [wbatch EXCEPT ![w] = @ \ {r}]
          /\ wpc' = [wpc EXCEPT ![w] = body]

\* line 180: the for loop takes the next event, or the batch is over (line 189)
ProcessEventsNext(w) ==
    /\ wpc[w] = "ev_pick"
    /\ LoopNext(w, "sync", "push_start")
    /\ UNCHANGED <<events, crashes, svars, wfetched, whandled, wfailed,
                   calendar_event_id, exc, pstate>>

\* _sync_to_google_calendar raising GoogleCalendarError instead of returning None
SyncToGoogleCalendar_Raises(w) ==
    /\ wpc[w] = "sync"
    /\ wpc' = [wpc EXCEPT ![w] = "ev_failed"]
    /\ exc' = [exc EXCEPT ![w] = "calendar error"]
    /\ UNCHANGED <<events, crashes, svars, wbatch, wcur, wfetched, whandled, wfailed,
                   calendar_event_id, pstate>>

\* every failed update taken for a missing entry
CreateAfterUpdate_AnyError(answer) == answer # "ok"

\* lines 284-289: after a failed update a new entry is created only when the
\* provider answered 404
CreateAfterUpdate(answer) == answer = "404"

\* lines 271-289: the answers events().update can get for the id
UpdateAnswers(gid) == (IF gid \in calendar THEN {"ok"} ELSE {"404"}) \cup {"error"}

\* lines 292-298: events().insert creates an entry and returns its id
CalendarInsert(w, before) ==
    /\ calendarCreated < MaxCalendar
    /\ calendarCreated' = calendarCreated + 1
    /\ calendar' = calendar \cup {calendarCreated + 1}
    /\ calendar_event_id' = [calendar_event_id EXCEPT ![w] = calendarCreated + 1]
    /\ calendar_calls' = [calendar_calls EXCEPT ![w] = Append(before, "insert ok")]

\* a provider call raised, or no call was made: the outer except clause, or
\* the return of line 249, gives None
CalendarNone(w, log) ==
    /\ calendar_event_id' = [calendar_event_id EXCEPT ![w] = NoCalendarId]
    /\ calendar_calls' = [calendar_calls EXCEPT ![w] = log]
    /\ UNCHANGED <<calendar, calendarCreated>>

\* _sync_to_google_calendar (lines 243-303): it never raises
SyncToGoogleCalendar(w) ==
    /\ wpc[w] = "sync"
    /\ LET gid == CurRecord(w).google_calendar_id IN
       \/ \* no refresh token or no calendar service (lines 136-143, 162-164, 246-249)
          CalendarNone(w, <<>>)
       \/ \* the event has an id: events().update (lines 272-289)
          /\ google_refresh_token
          /\ gid # NoCalendarId
          /\ \E answer \in UpdateAnswers(gid) :
                LET log == <<"update " \o answer>> IN
                IF answer = "ok"
                THEN /\ calendar_event_id' = [calendar_event_id EXCEPT ![w] = gid]
                     /\ calendar_calls' = [calendar_calls EXCEPT ![w] = log]
                     /\ UNCHANGED <<calendar, calendarCreated>>
                ELSE IF CreateAfterUpdate(answer)
                     THEN \/ CalendarInsert(w, log)
                          \/ CalendarNone(w, Append(log, "insert error"))
                     ELSE CalendarNone(w, log)
       \/ \* the event has no id: events().insert (lines 292-298)
          /\ google_refresh_token
          /\ gid = NoCalendarId
          /\ \/ CalendarInsert(w, <<>>)
             \/ CalendarNone(w, <<"insert error">>)
    /\ wpc' = [wpc EXCEPT ![w] = "reminders"]
    /\ UNCHANGED <<events, crashes, reminders, expo_push_token, google_refresh_token, now,
                   wbatch, wcur, wfetched, whandled, wfailed, exc,
                   inbound_emails, pvars, okMarked, failMarked, tvars, ivars>>

\* line 308 and line 327: start_time is offset-aware when start_ts ends in Z or
\* carries an offset, datetime.utcnow() is naive, and comparing the two raises
\* TypeError; the list of candidates is never empty, so the first comparison
\* raises
CompareRaises(e) == e.aware

\* _create_reminders logging its error without raising it again
CreateReminders_Swallow(w) ==
    /\ wpc[w] = "reminders"
    /\ \/ /\ wpc' = [wpc EXCEPT ![w] = "mark_synced"]
          /\ exc' = [exc EXCEPT ![w] = "store error"]
          /\ UNCHANGED reminders
       \/ /\ ~CompareRaises(CurRecord(w))
          /\ reminders' = UpsertAll(reminders,
                              RemindersToInsert(CurRecord(w), now, expo_push_token))
          /\ wpc' = [wpc EXCEPT ![w] = "mark_synced"]
          /\ UNCHANGED exc
    /\ UNCHANGED <<events, crashes, expo_push_token, google_refresh_token, calendar,
                   calendarCreated, now,
                   wbatch, wcur, wfetched, whandled, wfailed, calendar_event_id, pstate>>

\* _create_reminders (lines 305-357): the upsert, or an error raised again
CreateReminders(w) ==
    /\ wpc[w] = "reminders"
    /\ \/ \* the users query or the upsert fails (lines 318, 346-349)
          /\ wpc' = [wpc EXCEPT ![w] = "ev_failed"]
          /\ exc' = [exc EXCEPT ![w] = "store error"]
          /\ UNCHANGED reminders
       \/ \* the comparison of line 327 raises
          /\ CompareRaises(CurRecord(w))
          /\ wpc' = [wpc EXCEPT ![w] = "ev_failed"]
          /\ exc' = [exc EXCEPT ![w] = "TypeError"]
          /\ UNCHANGED reminders
       \/ /\ ~CompareRaises(CurRecord(w))
          /\ reminders' = UpsertAll(reminders,
                              RemindersToInsert(CurRecord(w), now, expo_push_token))
          /\ wpc' = [wpc EXCEPT ![w] = "mark_synced"]
          /\ UNCHANGED exc
    /\ UNCHANGED <<events, crashes, expo_push_token, google_refresh_token, calendar,
                   calendarCreated, now,
                   wbatch, wcur, wfetched, whandled, wfailed, calendar_event_id, pstate>>

\* _mark_event_synced (lines 359-370), then the loop goes on
MarkEventSynced(w) ==
    /\ wpc[w] = "mark_synced"
    /\ \/ /\ wpc' = [wpc EXCEPT ![w] = "ev_failed"]
          /\ exc' = [exc EXCEPT ![w] = "store error"]
          /\ UNCHANGED <<events, wbatch, wcur, whandled>>
       \/ /\ UNCHANGED exc
          /\ events' = [events EXCEPT ![CurRecord(w).id] =
                 [@ EXCEPT !.status = "synced",
                           !.google_calendar_id =
                               IF calendar_event_id[w] # NoCalendarId
                               THEN calendar_event_id[w] ELSE @]]
          /\ wpc' = [wpc EXCEPT ![w] = "ev_pick"]
          /\ LoopContinue(w)
    /\ UNCHANGED <<crashes, svars, wfetched, wfailed, calendar_event_id, pstate>>

\* _mark_event_failed (lines 372-381): the update, or an error that is swallowed
MarkEventFailed(i, error_message) ==
    \/ events' = [events EXCEPT ![i] = [@ EXCEPT !.status = "failed",
                                                 !.error_message = error_message]]
    \/ UNCHANGED events

\* lines 237-241: the except clause of _process_single_event
ProcessSingleEventExcept(w) ==
    /\ wpc[w] = "ev_failed"
    /\ MarkEventFailed(CurRecord(w).id, exc[w])
    /\ wfailed' = [wfailed EXCEPT ![w] = @ \cup {CurRecord(w).id}]
    /\ wpc' = [wpc EXCEPT ![w] = "ev_except"]
    /\ UNCHANGED <<crashes, svars, wbatch, wcur, wfetched, whandled, calendar_event_id, exc,
                   pstate>>

\* lines 183-187: the except clause of the batch loop; the loop goes on
ProcessEventsExcept(w) ==
    /\ wpc[w] = "ev_except"
    /\ wpc' = [wpc EXCEPT ![w] = "ev_pick"]
    /\ exc' = [exc EXCEPT ![w] = "none"]
    /\ LoopContinue(w)
    /\ UNCHANGED <<events, crashes, svars, wfetched, wfailed, calendar_event_id, pstate>>

\* process_push_notifications, lines 387-395 with _get_pending_reminders
ProcessPushNotifications(w) ==
    /\ wpc[w] = "push_start"
    /\ \/ /\ wpc' = [wpc EXCEPT ![w] = "exit"]
          /\ UNCHANGED <<wbatch, wfetched, whandled, wfailed>>
       \/ /\ PendingReminders = {}
          /\ wpc' = [wpc EXCEPT ![w] = "exit"]
          /\ UNCHANGED <<wbatch, wfetched, whandled, wfailed>>
       \/ /\ PendingReminders # {}
          /\ wbatch' = [wbatch EXCEPT ![w] = {ReminderRecord(i) : i \in PendingReminders}]
          /\ wfetched' = [wfetched EXCEPT ![w] = PendingReminders]
          /\ whandled' = [whandled EXCEPT ![w] = {}]
          /\ wfailed' = [wfailed EXCEPT ![w] = {}]
          /\ wpc' = [wpc EXCEPT ![w] = "push_pick"]
    /\ UNCHANGED <<events, crashes, svars, wcur, calendar_event_id, exc, pstate>>

\* line 397: the for loop takes the next reminder, or the batch is over
ProcessPushNext(w) ==
    /\ wpc[w] = "push_pick"
    /\ LoopNext(w, "send", "exit")
    /\ UNCHANGED <<events, crashes, svars, wfetched, whandled, wfailed,
                   calendar_event_id, exc, pstate>>

\* line 491
SentStatus(error_message) == IF error_message = "null" THEN "sent" ELSE "failed"

\* _mark_reminder_sent (lines 486-500): the update, or an error that is swallowed
MarkReminderSent(i, error_message) ==
    \/ reminders' = [reminders EXCEPT ![i] =
           [@ EXCEPT !.sent_at_ts = now,
                     !.status = SentStatus(error_message),
                     !.error_message = IF error_message = "null" THEN @ ELSE error_message]]
    \/ UNCHANGED reminders

\* the address of the PushMessage taken from the user's row
PushTo_UserToken(reminder) == expo_push_token

\* line 450: to=reminder.push_token
PushTo(reminder) == reminder.push_token

\* lines 448-463: the PushMessage is built and given to push_client.publish
Publish(w) ==
    /\ CurRecord(w).push_token # "null"
    /\ CurRecord(w).id \in DOMAIN push_count => push_count[CurRecord(w).id] < MaxPushCalls
    /\ published' = [published EXCEPT ![w] = [reminder_id |-> CurRecord(w).id,
                                               to |-> PushTo(CurRecord(w))]]
    /\ push_count' = [i \in DOMAIN push_count |->
                         IF i = CurRecord(w).id THEN push_count[i] + 1 ELSE push_count[i]]

\* _send_push_notification (lines 440-484)
SendPushNotification(w) ==
    /\ wpc[w] = "send"
    /\ \/ \* no push token (lines 442-445)
          /\ CurRecord(w).push_token = "null"
          /\ MarkReminderSent(CurRecord(w).id, "No push token")
          /\ wpc' = [wpc EXCEPT ![w] = "push_pick"]
          /\ LoopContinue(w)
          /\ UNCHANGED wghost
       \/ \* the provider reports success (lines 466-468)
          /\ Publish(w)
          /\ MarkReminderSent(CurRecord(w).id, "null")
          /\ wpc' = [wpc EXCEPT ![w] = "push_pick"]
          /\ LoopContinue(w)
       \/ \* DeviceNotRegisteredError (lines 474-476)
          /\ Publish(w)
          /\ MarkReminderSent(CurRecord(w).id, "Device not registered")
          /\ wpc' = [wpc EXCEPT ![w] = "push_pick"]
          /\ LoopContinue(w)
       \/ \* any other failure: PushNotificationError is raised (lines 469-472, 478-484)
          /\ Publish(w)
          /\ wpc' = [wpc EXCEPT ![w] = "push_except"]
          /\ UNCHANGED <<reminders, wbatch, wcur, whandled>>
    /\ UNCHANGED <<events, crashes, expo_push_token, google_refresh_token, calendar,
                   calendarCreated, now,
                   wfetched, wfailed, calendar_event_id, exc,
                   inbound_emails, pvars, okMarked, failMarked, calendar_calls, cvars,
                   health, ivars>>

\* the limit compared with > instead of >=
HandlePushFailure_OffByOne(r) ==
    LET retry_count == r.retry_count + 1 IN
    \/ reminders' = [reminders EXCEPT ![r.id] =
           IF retry_count > MaxPushRetries
           THEN [@ EXCEPT !.status = "failed", !.error_message = "error",
                          !.retry_count = retry_count]
           ELSE [@ EXCEPT !.retry_count = retry_count, !.error_message = "error"]]
    \/ UNCHANGED reminders

\* the count written back without the increment
HandlePushFailure_NoIncrement(r) ==
    LET retry_count == r.retry_count IN
    \/ reminders' = [reminders EXCEPT ![r.id] =
           IF retry_count >= MaxPushRetries
           THEN [@ EXCEPT !.status = "failed", !.error_message = "error",
                          !.retry_count = retry_count]
           ELSE [@ EXCEPT !.retry_count = retry_count, !.error_message = "error"]]
    \/ UNCHANGED reminders

\* _handle_push_failure (lines 502-526): the update, or an error that is swallowed
HandlePushFailure(r) ==
    LET retry_count == r.retry_count + 1 IN
    \/ reminders' = [reminders EXCEPT ![r.id] =
           IF retry_count >= MaxPushRetries
           THEN [@ EXCEPT !.status = "failed", !.error_message = "error",
                          !.retry_count = retry_count]
           ELSE [@ EXCEPT !.retry_count = retry_count, !.error_message = "error"]]
    \/ UNCHANGED reminders

\* lines 400-403: the except clause of the batch loop; the loop goes on
ProcessPushExcept(w) ==
    /\ wpc[w] = "push_except"
    /\ HandlePushFailure(CurRecord(w))
    /\ wfailed' = [wfailed EXCEPT ![w] = @ \cup {CurRecord(w).id}]
    /\ wpc' = [wpc EXCEPT ![w] = "push_pick"]
    /\ LoopContinue(w)
    /\ UNCHANGED <<events, crashes, expo_push_token, google_refresh_token, calendar,
                   calendarCreated, now,
                   wfetched, calendar_event_id, exc, pstate>>

\* main() is over (lines 528-536); the scheduled job runs it again. A kill of
\* the process at any point has the same effect, once the job runs again.
WorkerRun(w) ==
    /\ \/ wpc[w] = "exit"
       \/ /\ wpc[w] \notin {"exit", "idle"}
          /\ crashes < MaxCrashes
    /\ crashes' = IF wpc[w] = "exit" THEN crashes ELSE crashes + 1
    /\ wpc' = [wpc EXCEPT ![w] = "idle"]
    /\ wbatch' = [wbatch EXCEPT ![w] = {}]
    /\ wcur' = [wcur EXCEPT ![w] = NoRecord]
    /\ wfetched' = [wfetched EXCEPT ![w] = {}]
    /\ whandled' = [whandled EXCEPT ![w] = {}]
    /\ wfailed' = [wfailed EXCEPT ![w] = {}]
    /\ calendar_event_id' = [calendar_event_id EXCEPT ![w] = NoCalendarId]
    /\ exc' = [exc EXCEPT ![w] = "none"]
    /\ published' = [published EXCEPT ![w] = NoPublish]
    /\ UNCHANGED <<events, reminders, expo_push_token, google_refresh_token, calendar,
                   calendarCreated, now, calendar_calls, cvars, health, push_count, ivars,
                   inbound_emails, pvars, okMarked, failMarked>>

\* time passes
Tick ==
    /\ \E t \in Instants : t > now /\ now' = t
    /\ UNCHANGED <<events, crashes, reminders, expo_push_token, google_refresh_token,
                   calendar, calendarCreated, wvars, pstate>>

WorkerStep(w) ==
    \/ ProcessEvents(w)
    \/ ProcessEventsNext(w)
    \/ SyncToGoogleCalendar(w)
    \/ CreateReminders(w)
    \/ MarkEventSynced(w)
    \/ ProcessSingleEventExcept(w)
    \/ ProcessEventsExcept(w)
    \/ ProcessPushNotifications(w)
    \/ ProcessPushNext(w)
    \/ SendPushNotification(w)
    \/ ProcessPushExcept(w)
    \/ WorkerRun(w)

\* Events waiting for the worker: rows with status pending, as the worker's
\* tests build them (src/tests/reminder_worker_test.py).
PendingRow(start, gid, aware) ==
    [source_msg_id |-> "app", status |-> "pending", title |-> "app",
     start_ts |-> start, aware |-> aware, google_calendar_id |-> gid,
     error_message |-> "null"]

\* One event waits for the worker; its start_ts is a string with or without a
\* UTC designator. It may have been synced to the calendar
\* before (entry 1), and the provider may still hold that entry or not.
InitWorker ==
    /\ InitProcesses
    /\ crashes = 0
    /\ inbound_emails = [m \in Msgs |-> [processed |-> TRUE, processed_at |-> "set",
                                         feat |-> Feat(TRUE, TRUE, TRUE, TRUE)]]
    /\ \E s \in StartChoices, gid \in {NoCalendarId, 1}, aware \in BOOLEAN :
          events = <<PendingRow(s, gid, aware)>>
    /\ reminders = <<>>
    /\ expo_push_token \in {"null", "token"}
    /\ google_refresh_token = TRUE
    /\ calendar \in {{}, {1}}
    /\ calendarCreated = 1

NextWorker == Tick \/ WorkerStep("w1")

SpecWorker == InitWorker /\ [][NextWorker]_vars

\* One run of the job after the other with every store write succeeding: the
\* upsert (lines 346-349), the synced and failed updates of the event (lines
\* 362-366, 375-378), the sent update (lines 493-497) and the retry update
\* (lines 509-521).
WorkerStepLive(w) ==
    \/ ProcessEvents(w)
    \/ ProcessEventsNext(w)
    \/ SyncToGoogleCalendar(w)
    \/ CreateReminders(w) /\ exc'[w] # "store error"
    \/ MarkEventSynced(w) /\ exc'[w] # "store error"
    \/ ProcessSingleEventExcept(w) /\ events' # events
    \/ ProcessEventsExcept(w)
    \/ ProcessPushNotifications(w)
    \/ ProcessPushNext(w)
    \/ SendPushNotification(w) /\ (wpc'[w] = "push_pick" => reminders' # reminders)
    \/ ProcessPushExcept(w) /\ reminders' # reminders
    \/ WorkerRun(w)

\* the query of due reminders answered with rows
FetchDue(w) == ProcessPushNotifications(w) /\ wpc'[w] = "push_pick"

NextWorkerLive == Tick \/ WorkerStepLive("w1")

\* The scheduler starts the job again and again and every call of a run
\* returns or raises (weak fairness on the worker's step); the query of due
\* reminders, tried again in every run, does not fail for ever (strong
\* fairness on its answer).
SpecWorkerLive ==
    /\ InitWorker
    /\ [][NextWorkerLive]_vars
    /\ WF_vars(WorkerStepLive("w1"))
    /\ SF_vars(FetchDue("w1"))

\* Two events wait for the worker; all messages were processed before. The
\* user has not linked a calendar, and no process is killed.
InitBatch ==
    /\ InitProcesses
    /\ crashes = MaxCrashes
    /\ inbound_emails = [m \in Msgs |-> [processed |-> TRUE, processed_at |-> "set",
                                         feat |-> Feat(TRUE, TRUE, TRUE, TRUE)]]
    /\ \E s \in StartChoices :
          events = <<PendingRow(s, NoCalendarId, FALSE), PendingRow(s, NoCalendarId, FALSE)>>
    /\ reminders = <<>>
    /\ expo_push_token = "token"
    /\ google_refresh_token = FALSE
    /\ calendar = {}
    /\ calendarCreated = 0

\* Two messages wait for the parser, the second a complete one.
InitPipeline ==
    /\ InitParser
    /\ inbound_emails["m2"].feat = Feat(TRUE, TRUE, TRUE, TRUE)

\* The pipeline: the parser and the worker, each its own process, on one store
\* that holds unprocessed messages or pending events.
Init == InitPipeline \/ InitBatch

Next == Tick \/ ParserStep("p1") \/ WorkerStep("w1")

Spec == Init /\ [][Next]_vars

\* Two scheduled runs of the worker overlap on one store: one event waits, the
\* user has a push token and no linked calendar, and no process is killed.
InitWorkers ==
    /\ InitProcesses
    /\ crashes = MaxCrashes
    /\ inbound_emails = [m \in Msgs |-> [processed |-> TRUE, processed_at |-> "set",
                                         feat |-> Feat(TRUE, TRUE, TRUE, TRUE)]]
    /\ \E s \in StartChoices, aware \in BOOLEAN : events = <<PendingRow(s, NoCalendarId, aware)>>
    /\ reminders = <<>>
    /\ expo_push_token = "token"
    /\ google_refresh_token = FALSE
    /\ calendar = {}
    /\ calendarCreated = 0

NextWorkers == Tick \/ \E w \in Workers : WorkerStep(w)

SpecWorkers == InitWorkers /\ [][NextWorkers]_vars

\* ------------------------------------------------ the user's push token
Tokens == {"null", "token", "token2"}

\* The app registers another push token for the user, or none: the column
\* users.expo_push_token read at line 318 changes.
ChangeToken ==
    /\ \E t \in Tokens \ {expo_push_token} : expo_push_token' = t
    /\ UNCHANGED <<events, crashes, reminders, google_refresh_token,
                   calendar, calendarCreated, now, wvars, pstate>>

NextTokens == Tick \/ ChangeToken \/ WorkerStep("w1")

\* One event waits for the worker; the user has a push token or none and no
\* linked calendar, and no process is killed.
InitTokens ==
    /\ InitProcesses
    /\ crashes = MaxCrashes
    /\ inbound_emails = [m \in Msgs |-> [processed |-> TRUE, processed_at |-> "set",
                                         feat |-> Feat(TRUE, TRUE, TRUE, TRUE)]]
    /\ \E s \in StartChoices : events = <<PendingRow(s, NoCalendarId, FALSE)>>
    /\ reminders = <<>>
    /\ expo_push_token \in Tokens
    /\ google_refresh_token = FALSE
    /\ calendar = {}
    /\ calendarCreated = 0

\* the worker while the user's token changes
SpecTokens == InitTokens /\ [][NextTokens]_vars

\* ------------------------------------------- two dispatchers, one reminder
\* process_push_notifications while every publish fails with an error that
\* is neither success nor DeviceNotRegisteredError, and the store takes every
\* update of _handle_push_failure
DispatcherStep(w) ==
    \/ ProcessEvents(w)
    \/ ProcessPushNotifications(w)
    \/ ProcessPushNext(w)
    \/ SendPushNotification(w) /\ wpc'[w] = "push_except"
    \/ ProcessPushExcept(w)
          /\ reminders'[CurRecord(w).id].retry_count = CurRecord(w).retry_count + 1
    \/ WorkerRun(w)

\* The event was synced at time 0 and its one future reminder was scheduled;
\* the publish calls for that reminder are counted.
InitDispatchers ==
    /\ InitProcessVars
    /\ subject = <<>>
    /\ email_body = <<>>
    /\ generated = [kind |-> "not called"]
    /\ crashes = MaxCrashes
    /\ inbound_emails = [m \in Msgs |-> [processed |-> TRUE, processed_at |-> "set",
                                         feat |-> Feat(TRUE, TRUE, TRUE, TRUE)]]
    /\ events = <<[PendingRow(2, NoCalendarId, FALSE) EXCEPT !.status = "synced"]>>
    /\ reminders = UpsertAll(<<>>, RemindersToInsert([id |-> 1, start_ts |-> 2], 0, "token"))
    /\ push_count = [i \in DOMAIN reminders |-> 0]
    /\ expo_push_token = "token"
    /\ google_refresh_token = FALSE
    /\ calendar = {}
    /\ calendarCreated = 0

NextDispatchers == Tick \/ \E w \in Workers : DispatcherStep(w)

SpecDispatchers == InitDispatchers /\ [][NextDispatchers]_vars

\* ------------------------------------------- the worker and a placeholder
\* One event waits for the worker and the parser left a needs_review
\* placeholder for message m1 (parser lines 371-373); the user has linked a
\* calendar.
InitReview ==
    /\ InitProcesses
    /\ crashes = 0
    /\ inbound_emails = [m \in Msgs |-> [processed |-> TRUE, processed_at |-> "set",
                                         feat |-> Feat(TRUE, TRUE, TRUE, TRUE)]]
    /\ \E s \in StartChoices :
          events = <<PendingRow(s, NoCalendarId, FALSE), EventRow("m1", "none")>>
    /\ reminders = <<>>
    /\ expo_push_token = "token"
    /\ google_refresh_token = TRUE
    /\ calendar = {}
    /\ calendarCreated = 0

SpecReview == InitReview /\ [][NextWorker]_vars

\* ------------------------------------------------- the ingest function
\* src/main.py: handle_pubsub and the five steps it calls
pipeline == <<inbound_emails, events, pvars, okMarked, failMarked, crashes, reminders,
              expo_push_token, google_refresh_token, calendar, calendarCreated, now, wvars,
              calendar_calls, tvars>>

\* the rows of inbound_emails whose gmail_history is the history id
RowsOf(rows, history_id) == {i \in DOMAIN rows : rows[i].gmail_history = history_id}

\* the INSERT without its ON CONFLICT clause, on a table without the constraint
StoreEmailRows_PlainInsert(rows, user_id, history_id) ==
    Append(rows, [gmail_history |-> history_id, user_id |-> user_id, processed |-> FALSE])

\* lines 352-365: INSERT ... VALUES (..., false) ON CONFLICT (gmail_history) DO NOTHING
StoreEmailRows(rows, user_id, history_id) ==
    IF RowsOf(rows, history_id) # {}
    THEN rows
    ELSE Append(rows, [gmail_history |-> history_id, user_id |-> user_id,
                       processed |-> FALSE])

\* lines 367-371: RETURNING id gives a row exactly when one was inserted
StoreEmailResult(rows, history_id) ==
    IF RowsOf(rows, history_id) = {} THEN "True" ELSE "False"

\* lines 51-65: the exception classes; all three derive from EmailIngestError
EmailIngestErrors ==
    {"EmailIngestError", "JWTVerificationError", "GmailAPIError", "DatabaseError"}

\* DatabaseError taken for a class of its own, outside EmailIngestError
ResponseFor_DatabaseErrorApart(cls) ==
    IF cls = "JWTVerificationError" THEN [status |-> 400, body |-> "Invalid JWT"]
    ELSE IF cls \in EmailIngestErrors \ {"DatabaseError"}
         THEN [status |-> 400, body |-> "Bad request"]
         ELSE [status |-> 500, body |-> "Internal server error"]

\* lines 423-434: the except clauses of handle_pubsub, in their order
ResponseFor(cls) ==
    IF cls = "JWTVerificationError" THEN [status |-> 400, body |-> "Invalid JWT"]
    ELSE IF cls \in EmailIngestErrors
         THEN [status |-> 400, body |-> "Bad request"]
         ELSE [status |-> 500, body |-> "Internal server error"]

\* a step is called and returns
Returns(h, step, next) ==
    /\ hsteps' = [hsteps EXCEPT ![h] = Append(@, step)]
    /\ hpc' = [hpc EXCEPT ![h] = next]
    /\ UNCHANGED <<hexc, response>>

\* a step is called and raises: handle_pubsub answers by its except clauses
Raises(h, step, cls) ==
    /\ hsteps' = [hsteps EXCEPT ![h] = Append(@, step)]
    /\ hexc' = [hexc EXCEPT ![h] = cls]
    /\ response' = [response EXCEPT ![h] = ResponseFor(cls)]
    /\ hpc' = [hpc EXCEPT ![h] = "done"]

\* Pub/Sub delivers a notification (at least once each) to an instance that
\* handles none: handle_pubsub is entered (line 388)
HandlePubsub(h) ==
    /\ hpc[h] \in {"idle", "done"}
    /\ deliveries < MaxDeliveries
    /\ deliveries' = deliveries + 1
    /\ \E hid \in HistoryIds, e \in Addresses :
          request' = [request EXCEPT ![h] = [history_id |-> hid, email_address |-> e]]
    /\ hpc' = [hpc EXCEPT ![h] = "verify"]
    /\ hsteps' = [hsteps EXCEPT ![h] = <<>>]
    /\ hexc' = [hexc EXCEPT ![h] = "none"]
    /\ inserted' = [inserted EXCEPT ![h] = "not called"]
    /\ response' = [response EXCEPT ![h] = NoResponse]
    /\ UNCHANGED <<gmail_rows, pipeline>>

\* step 1, lines 389-392 with verify_pubsub_jwt (lines 67-113): every error
\* leaves it as JWTVerificationError
VerifyPubsubJwt(h) ==
    /\ hpc[h] = "verify"
    /\ \/ Returns(h, "verify_pubsub_jwt", "extract")
       \/ Raises(h, "verify_pubsub_jwt", "JWTVerificationError")
    /\ UNCHANGED <<gmail_rows, request, inserted, deliveries, pipeline>>

\* step 2, lines 394-397 with extract_pubsub_data (lines 115-165)
ExtractPubsubData(h) ==
    /\ hpc[h] = "extract"
    /\ \/ Returns(h, "extract_pubsub_data", "find")
       \/ Raises(h, "extract_pubsub_data", "EmailIngestError")
    /\ UNCHANGED <<gmail_rows, request, inserted, deliveries, pipeline>>

\* step 3, lines 399-404 with find_user_id (lines 299-325)
FindUserId(h) ==
    /\ hpc[h] = "find"
    /\ \/ /\ request[h].email_address \in DOMAIN Users
          /\ Returns(h, "find_user_id", "fetch")
       \/ /\ request[h].email_address \notin DOMAIN Users
          /\ hsteps' = [hsteps EXCEPT ![h] = Append(@, "find_user_id")]
          /\ response' = [response EXCEPT ![h] = [status |-> 404, body |-> "User not found"]]
          /\ hpc' = [hpc EXCEPT ![h] = "done"]
          /\ UNCHANGED hexc
       \/ Raises(h, "find_user_id", "DatabaseError")
    /\ UNCHANGED <<gmail_rows, request, inserted, deliveries, pipeline>>

\* step 4, lines 406-409 with fetch_email_content (lines 204-297)
FetchEmailContent(h) ==
    /\ hpc[h] = "fetch"
    /\ \/ Returns(h, "fetch_email_content", "store")
       \/ Raises(h, "fetch_email_content", "GmailAPIError")
    /\ UNCHANGED <<gmail_rows, request, inserted, deliveries, pipeline>>

\* steps 5 and 6, lines 411-421 with store_email (lines 327-375)
StoreEmail(h) ==
    /\ hpc[h] = "store"
    /\ LET user_id == Users[request[h].email_address]
           history_id == request[h].history_id IN
       \/ \* the statement and the commit succeed
          /\ gmail_rows' = StoreEmailRows(gmail_rows, user_id, history_id)
          /\ inserted' = [inserted EXCEPT ![h] = StoreEmailResult(gmail_rows, history_id)]
          /\ hsteps' = [hsteps EXCEPT ![h] = Append(@, "store_email")]
          /\ response' = [response EXCEPT ![h] = [status |-> 204, body |-> ""]]
          /\ hpc' = [hpc EXCEPT ![h] = "done"]
          /\ UNCHANGED hexc
       \/ \* the connection or the statement fails: nothing is committed
          /\ Raises(h, "store_email", "DatabaseError")
          /\ UNCHANGED <<gmail_rows, inserted>>
       \/ \* the commit reaches the store and its answer is lost
          /\ gmail_rows' = StoreEmailRows(gmail_rows, user_id, history_id)
          /\ Raises(h, "store_email", "DatabaseError")
          /\ UNCHANGED inserted
    /\ UNCHANGED <<request, deliveries, pipeline>>

\* an exception that is no EmailIngestError, raised in the body of the try
\* (lines 388-421) between two steps
UnexpectedError(h) ==
    /\ hpc[h] \in {"extract", "find", "fetch", "store"}
    /\ hexc' = [hexc EXCEPT ![h] = "Exception"]
    /\ response' = [response EXCEPT ![h] = ResponseFor("Exception")]
    /\ hpc' = [hpc EXCEPT ![h] = "done"]
    /\ UNCHANGED <<gmail_rows, request, hsteps, inserted, deliveries, pipeline>>

HandlerStep(h) ==
    \/ HandlePubsub(h)
    \/ VerifyPubsubJwt(h)
    \/ ExtractPubsubData(h)
    \/ FindUserId(h)
    \/ FetchEmailContent(h)
    \/ StoreEmail(h)
    \/ UnexpectedError(h)

\* The ingest function alone: the parser and the worker do not run.
InitIngest ==
    /\ InitProcesses
    /\ crashes = MaxCrashes
    /\ inbound_emails = [m \in Msgs |-> [processed |-> TRUE, processed_at |-> "set",
                                         feat |-> Feat(TRUE, TRUE, TRUE, TRUE)]]
    /\ events = <<>>
    /\ reminders = <<>>
    /\ expo_push_token = "null"
    /\ google_refresh_token = FALSE
    /\ calendar = {}
    /\ calendarCreated = 0

\* instances of the function run side by side
NextIngest == \E h \in Handlers : HandlerStep(h)

SpecIngest == InitIngest /\ [][NextIngest]_vars

\* ------------------------------------------------------- _clean_subject
\* A subject line is the sequence of its words: prefixes as senders write
\* them, then the title.
PrefixSpellings == {"Re:", "RE:", "Fwd:", "FW:", "[Reminder]", "[Event]"}

TitleWord == "Soccer"

\* str.lower() on the words
Lower(word) ==
    CASE word \in {"Re:", "RE:"} -> "re:"
      [] word = "Fwd:" -> "fwd:"
      [] word = "FW:" -> "fw:"
      [] word = "[Reminder]" -> "[reminder]"
      [] word = "[Event]" -> "[event]"
      [] word = "Soccer" -> "soccer"

\* line 175
prefixes == <<"re:", "fwd:", "fw:", "[reminder]", "[event]">>

\* lines 177-180: one pass over the list; a prefix the subject starts with is
\* cut off, with the blanks after it, and the pass goes on to the next prefix
RECURSIVE CleanPass(_, _)
CleanPass(s, rest) ==
    IF rest = <<>> THEN s
    ELSE IF s # <<>> /\ Lower(Head(s)) = Head(rest)
         THEN CleanPass(Tail(s), Tail(rest))
         ELSE CleanPass(s, Tail(rest))

\* the subject lines with up to MaxPrefixes prefixes
Subjects ==
    UNION {{Append(pre, TitleWord) : pre \in [1..n -> PrefixSpellings]} : n \in 0..MaxPrefixes}

\* _clean_subject (lines 172-182)
CleanSubject ==
    /\ ~subject_done
    /\ cleaned_subject' = CleanPass(subject, prefixes)
    /\ subject_done' = TRUE
    /\ UNCHANGED <<subject, fvars, gvars, ivars, inbound_emails, events, pvars, okMarked, failMarked,
                   crashes, reminders, expo_push_token, google_refresh_token, calendar,
                   calendarCreated, now, wvars, calendar_calls>>

\* _clean_subject alone, called with any of the subject lines
InitSubject ==
    /\ InitProcessVars
    /\ subject \in Subjects
    /\ email_body = <<>>
    /\ generated = [kind |-> "not called"]
    /\ push_count = <<>>
    /\ crashes = MaxCrashes
    /\ inbound_emails = [m \in Msgs |-> [processed |-> TRUE, processed_at |-> "set",
                                         feat |-> Feat(TRUE, TRUE, TRUE, TRUE)]]
    /\ events = <<>>
    /\ reminders = <<>>
    /\ expo_push_token = "null"
    /\ google_refresh_token = FALSE
    /\ calendar = {}
    /\ calendarCreated = 0

SpecSubject == InitSubject /\ [][CleanSubject]_vars

\* --------------------------------------------- RegexParser._extract_dates
\* the four DATE_PATTERNS in list order: ISO, slash, dash, month name
DATE_PATTERNS == <<"iso", "slash", "dash", "month">>

DateValues == {"2024-03-15", "2024-03-16", "2024-03-20"}

\* A match of a date pattern in the body: the pattern that matched and the
\* date its text is normalized to; "ValueError" when strptime refuses the
\* text (13/45/2024), which the ISO branch never does.
Matches ==
    [pattern : {"iso", "slash", "dash", "month"}, date : DateValues]
        \cup [pattern : {"slash", "dash", "month"}, date : {"ValueError"}]

Bodies == UNION {[1..n -> Matches] : n \in 0..MaxMatches}

\* re.findall of one pattern: its matches in text order (line 189)
FindAll(pattern, text) == SelectSeq(text, LAMBDA m : m.pattern = pattern)

\* the list dates before the duplicates are removed (lines 186-206): pattern
\* after pattern, the matches of each in text order, the refused ones skipped
RECURSIVE Scan(_, _)
Scan(patterns, text) ==
    IF patterns = <<>> THEN <<>>
    ELSE LET found == SelectSeq(FindAll(Head(patterns), text),
                                LAMBDA m : m.date # "ValueError")
         IN  [i \in 1..Len(found) |-> found[i].date] \o Scan(Tail(patterns), text)

\* list(set(dates)) keeping the order of first occurrence
RECURSIVE FirstOccurrences(_)
FirstOccurrences(list) ==
    IF list = <<>> THEN <<>>
    ELSE LET init == FirstOccurrences(SubSeq(list, 1, Len(list) - 1))
             last == list[Len(list)]
         IN  IF \E i \in DOMAIN init : init[i] = last THEN init ELSE Append(init, last)

\* _extract_dates (lines 184-208): list(set(dates)) holds every distinct date
\* once, in the iteration order of a set of strings, which the hash seed of
\* the process decides: any order
ExtractDates(text) ==
    LET found == Scan(DATE_PATTERNS, text)
    IN  Perms({found[i] : i \in DOMAIN found})

\* RegexParser.parse, lines 143-148: the dates of the body and the start and
\* end taken from them
ParseDates ==
    /\ ~dates_done
    /\ \E list \in ExtractDates(email_body) :
          /\ dates' = list
          /\ parsed_data' =
                IF list # <<>>
                THEN [start_ts |-> list[1],
                      end_ts |-> IF Len(list) > 1 THEN list[2] ELSE list[1]]
                ELSE parsed_data
    /\ dates_done' = TRUE
    /\ UNCHANGED <<email_body, generated, ollama_parsed, subject, cleaned_subject, subject_done,
                   gvars, ivars, inbound_emails, events,
                   pvars, okMarked, failMarked, crashes, reminders, expo_push_token,
                   google_refresh_token, calendar, calendarCreated, now, wvars, calendar_calls>>

\* RegexParser.parse reading the dates of any body
InitDates ==
    /\ InitProcessVars
    /\ subject = <<>>
    /\ email_body \in Bodies
    /\ generated = [kind |-> "not called"]
    /\ push_count = <<>>
    /\ crashes = MaxCrashes
    /\ inbound_emails = [m \in Msgs |-> [processed |-> TRUE, processed_at |-> "set",
                                         feat |-> Feat(TRUE, TRUE, TRUE, TRUE)]]
    /\ events = <<>>
    /\ reminders = <<>>
    /\ expo_push_token = "null"
    /\ google_refresh_token = FALSE
    /\ calendar = {}
    /\ calendarCreated = 0

SpecDates == InitDates /\ [][ParseDates]_vars

\* -------------------------------------------- EventParser._parse_with_ollama
\* the keys of the JSON object the parser reads (lines 402-410)
DataKeys == {"title", "start_date", "start_time", "end_date", "end_time"}

\* what the object holds under a key: a value, null, or no such key
SampleValue(key) ==
    CASE key = "title" -> "Soccer Practice"
      [] key = "start_date" -> "2024-03-16"
      [] key = "start_time" -> "15:00"
      [] key = "end_date" -> "2024-03-17"
      [] key = "end_time" -> "16:00"

JsonObjects ==
    {d \in [DataKeys -> {"value", "null", "missing"}] : d["start_date"] = "value"}

\* How OllamaClient.generate ends (lines 75-100) and what json.loads makes of
\* the text under 'response' (lines 395-399).
GenerateOutcomes ==
    [kind : {"object"}, data : JsonObjects]
        \cup [kind : {"invalid JSON", "JSON array", "TimeoutError", "RuntimeError", "ValueError"}]

\* data.get(key, default): the default only when the key is missing; a null
\* is returned as None
Get(data, key, default) ==
    CASE data[key] = "value" -> SampleValue(key)
      [] data[key] = "null" -> "None"
      [] data[key] = "missing" -> default

\* the ParsedEvent built from the object (lines 402-412); None is formatted
\* into the f-strings as the text None
OllamaEvent(data) ==
    [kind |-> "event",
     title |-> Get(data, "title", "Untitled Event"),
     start_ts |-> [date |-> Get(data, "start_date", "None"),
                   time |-> Get(data, "start_time", "00:00")],
     end_ts |-> [date |-> Get(data, "end_date", Get(data, "start_date", "None")),
                 time |-> Get(data, "end_time", Get(data, "start_time", "23:59"))],
     confidence |-> OllamaConfidence]

\* the exception the body of the outer try ends with, "none" when it returns
RaisedInTry(outcome) ==
    CASE outcome.kind \in {"TimeoutError", "RuntimeError", "ValueError"} -> outcome.kind
      [] outcome.kind = "JSON array" -> "AttributeError"
      [] OTHER -> "none"

OuterExceptCatches_TimeoutOnly(cls) == cls = "TimeoutError"

\* except Exception (line 418)
OuterExceptCatches(cls) == TRUE

\* _parse_with_ollama (lines 387-420)
OllamaParse ==
    /\ generated.kind # "not called"
    /\ ollama_parsed.kind = "not called"
    /\ ollama_parsed' =
          IF generated.kind = "object" THEN OllamaEvent(generated.data)
          ELSE IF generated.kind = "invalid JSON" THEN [kind |-> "None"]
          ELSE IF OuterExceptCatches(RaisedInTry(generated)) THEN [kind |-> "None"]
          ELSE [kind |-> "raised"]
    /\ UNCHANGED <<generated, email_body, dates, parsed_data, dates_done, subject,
                   cleaned_subject, subject_done, gvars, ivars, inbound_emails, events,
                   pvars, okMarked, failMarked, crashes, reminders, expo_push_token,
                   google_refresh_token, calendar, calendarCreated, now, wvars, calendar_calls>>

\* _parse_with_ollama called once, generate ending in any way
InitOllama ==
    /\ InitProcessVars
    /\ subject = <<>>
    /\ email_body = <<>>
    /\ generated \in GenerateOutcomes
    /\ push_count = <<>>
    /\ crashes = MaxCrashes
    /\ inbound_emails = [m \in Msgs |-> [processed |-> TRUE, processed_at |-> "set",
                                         feat |-> Feat(TRUE, TRUE, TRUE, TRUE)]]
    /\ events = <<>>
    /\ reminders = <<>>
    /\ expo_push_token = "null"
    /\ google_refresh_token = FALSE
    /\ calendar = {}
    /\ calendarCreated = 0

SpecOllama == InitOllama /\ [][OllamaParse]_vars

\* ------------------------------------------------------------------ claims
ConfidenceOf(m) == RegexParserParse(inbound_emails[m].feat)[2]

InCall(p) == email[p] # NoMsg

Returned(p) == ppc[p] = "pick" /\ branch[p] \in {"duplicate", "event", "review"}

Range(q) == {q[i] : i \in DOMAIN q}

\* C1: at most one event row exists for any source message id, whether the
\* message is processed once or again after a restart or a retry.
C1_AtMostOneEventPerMessage ==
    \A m \in Msgs : Cardinality(EventsOf(m)) <= 1

\* a message that already had its event was processed again and still has one
C1_Witness ==
    \E p \in Parsers :
        /\ InCall(p) /\ hadEvent[p] /\ Returned(p) /\ crashes > 0
        /\ Cardinality(EventsOf(email[p])) = 1

\* C2: an event persisted from a successful extraction is one the worker's
\* query selects (status pending) until the worker has marked it synced or
\* failed; otherwise it is never picked up.
C2_ParsedEventReachesWorker ==
    \A i \in DOMAIN events :
        events[i].title \in {"regex", "ollama"}
            => events[i].status \in {"pending", "synced", "failed"}

\* What the pipeline does instead: an event the parser wrote keeps the status
\* it was inserted with, and no worker batch ever holds it.
C2_ParsedEventNeverFetched ==
    \A i \in DOMAIN events :
        events[i].title \in {"regex", "ollama"}
            => /\ events[i].status = "upcoming"
               /\ \A w \in Workers : wpc[w] \in {"ev_pick", "sync", "reminders",
                                                 "mark_synced", "ev_failed", "ev_except"}
                                         => i \notin wfetched[w]

\* C3: when an event with the message's id exists on entry to _process_email,
\* the call runs neither parser, inserts nothing, and once the check has found
\* the event it marks the message processed (one call) and returns.
C3_DuplicateSkipsParsing ==
    \A p \in Parsers :
        (InCall(p) /\ hadEvent[p]) =>
            /\ ppc[p] \notin {"regex", "ollama", "insert"}
            /\ calls[p].regex = 0 /\ calls[p].ollama = 0 /\ calls[p].insert = 0
            /\ branch[p] \notin {"event", "review"}
            /\ ppc[p] = "mark_ok" => branch[p] = "duplicate"
            /\ Returned(p) => branch[p] = "duplicate" /\ calls[p].mark = 1

\* the call for a message whose event existed has returned by the duplicate branch
C3_Witness ==
    \E p \in Parsers :
        /\ InCall(p) /\ hadEvent[p] /\ Returned(p)
        /\ branch[p] = "duplicate" /\ calls[p].mark = 1
        /\ inbound_emails[email[p]].processed

\* C4: the parser makes exactly one mark-processed call per message and call of
\* _process_email, whatever the outcome: success, review, duplicate, or failure
\* after the retries.
C4_OneMarkPerMessage ==
    \A p \in Parsers :
        (ppc[p] = "pick" /\ branch[p] \in {"duplicate", "event", "review", "failed"})
            => calls[p].mark = 1

C6_HighConfidenceNoEscalation ==
    \A p \in Parsers :
        (InCall(p) /\ ConfidenceOf(email[p]) >= EscalateThreshold) =>
            /\ ppc[p] # "ollama"
            /\ calls[p].ollama = 0
            /\ ollama_result[p] = "not called"
            /\ ppc[p] = "insert" => parsed_event[p] = "regex"
            /\ \A i \in EventsOf(email[p]) :
                  events[i].title = "regex" /\ events[i].status # "needs_review"

\* a message of confidence at least 0.7 has its regex candidate persisted
C6_Witness ==
    \E p \in Parsers :
        /\ InCall(p) /\ ConfidenceOf(email[p]) >= EscalateThreshold
        /\ Returned(p) /\ branch[p] = "event" /\ calls[p].regex = 1
        /\ \E i \in EventsOf(email[p]) : events[i].title = "regex"

\* C7: when the regex confidence is below 0.7 the escalation parser is invoked
\* before anything is inserted; when it returns absent the candidate is absent
\* (a viable regex candidate included) and the call that returns has inserted
\* exactly one needs_review event and marked the message processed once.
C7_LowConfidenceEscalates ==
    \A p \in Parsers :
        (InCall(p) /\ ConfidenceOf(email[p]) < EscalateThreshold) =>
            /\ ppc[p] = "insert" =>
                  ollama_result[p] # "not called" /\ calls[p].ollama = calls[p].regex
            /\ (ppc[p] = "insert" /\ ollama_result[p] = "absent") => parsed_event[p] = "none"
            /\ (ollama_result[p] = "absent" /\ branch[p] \in {"event", "review"}) =>
                  /\ branch[p] = "review"
                  /\ Cardinality(EventsOf(email[p])) = 1
                  /\ \A i \in EventsOf(email[p]) :
                        events[i].status = "needs_review" /\ events[i].title = "review"
                  /\ Returned(p) => calls[p].mark = 1

\* a message with a viable regex candidate at 0.6 ended as a review placeholder
C7_Witness ==
    \E p \in Parsers :
        /\ InCall(p) /\ inbound_emails[email[p]].feat = Feat(TRUE, TRUE, FALSE, FALSE)
        /\ ollama_result[p] = "absent" /\ Returned(p) /\ branch[p] = "review"
        /\ calls[p].mark = 1
        /\ \E i \in EventsOf(email[p]) : events[i].status = "needs_review"

\* the emails, events or reminders a loop still owes its body
ParserOwed(p) ==
    Range(pbatch[p]) \cup (IF ppc[p] \in {"start", "poll", "pick", "exit"} THEN {} ELSE {email[p]})

WorkerOwed(w) ==
    {r.id : r \in wbatch[w]}
        \cup (IF wpc[w] \in {"idle", "ev_pick", "push_start", "push_pick", "exit"}
              THEN {} ELSE {wcur[w].id})

\* C8: in each of the three batch loops (emails, events, reminders) a failure on
\* one item does not end the loop: every item fetched is handled or still to be
\* handled, and when the loop is over every item fetched was handled.
C8_FailureDoesNotStopBatch ==
    /\ \A p \in Parsers :
          /\ ppc[p] \notin {"start", "exit"} =>
                /\ pfetched[p] = phandled[p] \cup ParserOwed(p)
                /\ pfailed[p] \subseteq pfetched[p]
          /\ ppc[p] = "poll" => phandled[p] = pfetched[p]
    /\ \A w \in Workers :
          /\ wfetched[w] = whandled[w] \cup WorkerOwed(w)
          /\ wfailed[w] \subseteq wfetched[w]
          /\ wpc[w] \in {"idle", "push_start", "exit"} => whandled[w] = wfetched[w]

\* a worker run in which one event failed and the other was synced, and then
\* one reminder of the push batch failed and the batch was still finished
C8_Witness ==
    \E w \in Workers :
        /\ wpc[w] = "exit"
        /\ Cardinality(wfetched[w]) = 2 /\ whandled[w] = wfetched[w]
        /\ Cardinality(wfailed[w]) = 1
        /\ \E i, j \in DOMAIN events :
              events[i].status = "failed" /\ events[j].status = "synced"

\* the parser's loop: the first email of a batch of two failed all its attempts
\* and the second was processed
C8_WitnessParser ==
    \E p \in Parsers :
        /\ ppc[p] = "poll" /\ pfetched[p] = Msgs /\ phandled[p] = Msgs
        /\ pfailed[p] # {} /\ InCall(p) /\ email[p] \notin pfailed[p]

\* C9: the status of an event is one of pending, synced, failed, needs_review.
C9_StatusDomain ==
    \A i \in DOMAIN events :
        events[i].status \in {"pending", "synced", "failed", "needs_review"}

\* C10: an event marked synced or failed keeps that status under any
\* interleaving of the worker processes.
C10_ProcessedEventIsFinal ==
    [][\A i \in DOMAIN events :
          events[i].status \in {"synced", "failed"}
              => events'[i].status = events[i].status]_vars

\* the notify-at instants of the reminder rows of event e
ReminderKeys(e) ==
    {reminders[i].notify_at_ts : i \in {j \in DOMAIN reminders : reminders[j].event_id = e}}

\* the candidates 24 h, 3 h and 30 min before S that are strictly later than N
ExpectedKeys(S, N) == {k \in {S - Offset24h, S - Offset3h, S - Offset30min} : k > N}

\* _create_reminders of worker w ends in this step, and not by a store error
SchedulingEnds(w) ==
    /\ wpc[w] = "reminders"
    /\ wpc'[w] \in {"mark_synced", "ev_failed"}
    /\ exc'[w] # "store error"

C13_NoDuplicateReminders ==
    /\ [](\A i, j \in DOMAIN reminders : SameSlot(reminders[i], reminders[j]) => i = j)
    /\ [](\A i \in DOMAIN reminders :
             reminders[i].notify_at_ts \in
                 {events[reminders[i].event_id].start_ts - o :
                      o \in {Offset24h, Offset3h, Offset30min}})
    /\ [][\A e \in DOMAIN events :
             ReminderKeys(e) # {} => ReminderKeys(e)' = ReminderKeys(e)]_vars

\* both workers have run _create_reminders for the same event, three rows stand
C13_Witness ==
    /\ \A w \in Workers : wpc[w] = "mark_synced"
    /\ wcur["w1"].id = wcur["w2"].id
    /\ Cardinality(ReminderKeys(wcur["w1"].id)) = 3
    /\ Len(reminders) = 3

\* C14: whenever _create_reminders runs for an event starting at S at instant N
\* (and the store works), it completes and the store holds a row for each of
\* S-24h, S-3h, S-30min later than N; it adds no other row, and writes nothing
\* when no candidate is later than N.
C14_SchedulesFutureCandidates ==
    [][\A w \in Workers :
          SchedulingEnds(w) =>
              LET e == wcur[w] IN
              /\ wpc'[w] = "mark_synced"
              /\ ExpectedKeys(e.start_ts, now) \subseteq ReminderKeys(e.id)'
              /\ (ReminderKeys(e.id)' \ ReminderKeys(e.id)) \subseteq ExpectedKeys(e.start_ts, now)
              /\ ExpectedKeys(e.start_ts, now) = {} => reminders' = reminders]_vars

\* What holds: the same, for the events whose start_ts carries no UTC
\* designator or offset.
C14_HoldsForNaiveStart ==
    [][\A w \in Workers :
          (SchedulingEnds(w) /\ ~wcur[w].aware) =>
              LET e == wcur[w] IN
              /\ wpc'[w] = "mark_synced"
              /\ ExpectedKeys(e.start_ts, now) \subseteq ReminderKeys(e.id)'
              /\ (ReminderKeys(e.id)' \ ReminderKeys(e.id)) \subseteq ExpectedKeys(e.start_ts, now)
              /\ ExpectedKeys(e.start_ts, now) = {} => reminders' = reminders]_vars

\* C15: scheduling an event that starts in 25 hours leaves exactly 3 reminders
\* of it, scheduling an event that starts in 1 hour leaves exactly 0.
C15_TwentyFiveHoursAndOneHour ==
    [][\A w \in Workers :
          SchedulingEnds(w) =>
              LET e == wcur[w]
                  n == Cardinality(ReminderKeys(e.id)')
              IN /\ e.start_ts - now = 50 => n = 3
                 /\ e.start_ts - now = 2 => n = 0]_vars

\* C16: a reminder whose send met DeviceNotRegisteredError has status sent, its
\* note, and the retry count it had.
C16_DeviceNotRegisteredIsSent ==
    \A i \in DOMAIN reminders :
        reminders[i].error_message = "Device not registered"
            => reminders[i].status = "sent" /\ reminders[i].sent_at_ts # NoSentAt

\* C17: a reminder without a push token that was dispatched has status sent,
\* its sent-at set, and its note.
C17_NoTokenIsSent ==
    \A i \in DOMAIN reminders :
        reminders[i].error_message = "No push token"
            => reminders[i].status = "sent" /\ reminders[i].sent_at_ts # NoSentAt

\* C18: when a send fails with any other error, _handle_push_failure (unless
\* its own update fails, which it logs) raises the reminder's retry count by
\* one and records the error; at 5 the reminder is failed, below 5 it stays
\* pending with sent-at unset and the query of due reminders selects it again.
C18_PushFailureRetries ==
    [][\A w \in Workers :
          (wpc[w] = "push_except" /\ wpc'[w] = "push_pick") =>
              LET i == wcur[w].id IN
              \/ reminders' = reminders
              \/ /\ reminders'[i].retry_count = reminders[i].retry_count + 1
                 /\ reminders'[i].error_message = "error"
                 /\ reminders'[i].retry_count >= MaxPushRetries
                        => reminders'[i].status = "failed"
                 /\ reminders'[i].retry_count < MaxPushRetries
                        => /\ reminders'[i].status = "pending"
                           /\ reminders'[i].sent_at_ts = NoSentAt
                           /\ i \in PendingReminders'
                 /\ \A j \in DOMAIN reminders : j # i => reminders'[j] = reminders[j]]_vars

\* a reminder failed four times and is due again
C18_Witness ==
    \E i \in PendingReminders :
        /\ reminders[i].retry_count = MaxPushRetries - 1
        /\ reminders[i].error_message = "error"
        /\ \E w \in Workers : wpc[w] = "push_pick" /\ i \in whandled[w] /\ i \in wfailed[w]

\* C19: _sync_to_google_calendar never raises: whatever its outcome the event
\* goes on to reminder scheduling; an event marked synced after a failed sync
\* has its external-calendar id as it was; an event is marked failed only for
\* an error of the scheduling or of the synced write, never for the calendar.
C19_CalendarFailureIsNotFatal ==
    /\ [](\A w \in Workers :
             /\ wpc[w] \in {"ev_failed", "ev_except"} => exc[w] \in {"store error", "TypeError"}
             /\ wpc[w] \in {"sync", "reminders", "mark_synced"} => exc[w] = "none")
    /\ [](\A i \in DOMAIN events :
             events[i].status = "failed" => events[i].error_message \in {"store error", "TypeError"})
    /\ [][\A w \in Workers :
             /\ (wpc[w] = "sync" /\ wpc'[w] \notin {"sync", "idle"})
                    => wpc'[w] = "reminders" /\ events' = events
             /\ (wpc[w] = "mark_synced" /\ wpc'[w] = "ev_pick"
                     /\ calendar_event_id[w] = NoCalendarId)
                    => /\ events'[wcur[w].id].status = "synced"
                       /\ events'[wcur[w].id].google_calendar_id
                              = events[wcur[w].id].google_calendar_id]_vars

\* the sync of an event failed, nothing was created, and the event is synced
\* with its external-calendar id unwritten
C19_Witness ==
    \E w \in Workers :
        /\ wpc[w] = "ev_pick" /\ whandled[w] # {} /\ wfailed[w] = {}
        /\ calendar_event_id[w] = NoCalendarId /\ calendarCreated = 1
        /\ events[wcur[w].id].status = "synced"
        /\ events[wcur[w].id].google_calendar_id = NoCalendarId
        /\ Len(reminders) > 0

\* C20: processing one pending event, with the worker killed and run again,
\* creates at most one external calendar entry and no duplicate reminder row.
C20_RestartCreatesNoSecondEntry ==
    /\ calendarCreated - 1 <= 1
    /\ \A i, j \in DOMAIN reminders : SameSlot(reminders[i], reminders[j]) => i = j

\* C21: when two parser processes run _process_email for the same message
\* concurrently, exactly one event row results under every interleaving, the
\* second writer's insert is a no-op and not a failure, and the message ends
\* processed.
C21_RaceLeavesOneEvent ==
    \A p, q \in Parsers :
        (p # q /\ InCall(p) /\ email[q] = email[p] /\ Returned(p) /\ Returned(q))
            => /\ Cardinality(EventsOf(email[p])) = 1
               /\ inbound_emails[email[p]].processed

\* C22: every message the unprocessed-messages query returned eventually has
\* processed = true, whichever branch its processing takes, as long as the
\* polling loop runs (a restarted process may stop at its health check) and the
\* processed write succeeds.
C22_FetchedEventuallyProcessed ==
    \A m \in Msgs :
        (m \in pfetched["p1"]) ~> (inbound_emails[m].processed \/ ppc["p1"] = "exit")

\* one batch held a message whose attempts all failed and one that got its
\* event or placeholder; both are processed
C22_Witness ==
    \E a, b \in pfetched["p1"] :
        /\ a \in failMarked /\ a \notin okMarked /\ inbound_emails[a].processed
        /\ b \in okMarked /\ b \notin failMarked /\ inbound_emails[b].processed
        /\ ppc["p1"] = "poll"

\* ids of table reminders: an event has at most one row per offset
ReminderIds == 1..Len(ReminderOffsets)

Due(i) == i \in PendingReminders

Terminal(i) == i \in DOMAIN reminders /\ reminders[i].status \in {"sent", "failed"}

\* C23: every due reminder (notify-at <= now, pending, sent-at unset)
\* eventually has status sent or failed; a reminder still pending has failed
\* fewer than 5 dispatch cycles, the fifth failure makes it failed. The
\* dispatcher is run again and again and the store writes succeed.
C23_DueEventuallyTerminal ==
    /\ \A i \in ReminderIds : Due(i) ~> Terminal(i)
    /\ [](\A i \in DOMAIN reminders :
             /\ reminders[i].status = "pending" => reminders[i].retry_count < MaxPushRetries
             /\ reminders[i].retry_count <= MaxPushRetries)

\* a due reminder failed in five dispatch cycles and is failed; the job has
\* ended its run
C23_Witness ==
    \E i \in ReminderIds :
        /\ Terminal(i) /\ reminders[i].status = "failed"
        /\ reminders[i].retry_count = MaxPushRetries
        /\ reminders[i].sent_at_ts = NoSentAt /\ reminders[i].notify_at_ts <= now
        /\ wpc["w1"] = "exit"

\* C24: store_email is idempotent on the history id: however many calls carry
\* one id, the table holds at most one row for it, exactly one once a call has
\* returned, with processed = false; a call returns True exactly when it
\* inserted the row and False when the row was there, leaving the table as it
\* was.
C24_StoreEmailIdempotent ==
    /\ [](\A hid \in HistoryIds : Cardinality(RowsOf(gmail_rows, hid)) <= 1)
    /\ [](\A i \in DOMAIN gmail_rows : ~gmail_rows[i].processed)
    /\ [](\A h \in Handlers :
             inserted[h] \in {"True", "False"}
                 => Cardinality(RowsOf(gmail_rows, request[h].history_id)) = 1)
    /\ [][\A h \in Handlers :
             (hpc[h] = "store" /\ hpc'[h] = "done") =>
                 LET hid == request[h].history_id IN
                 /\ inserted'[h] = "True"
                        => /\ RowsOf(gmail_rows, hid) = {}
                           /\ Len(gmail_rows') = Len(gmail_rows) + 1
                 /\ inserted'[h] = "False"
                        => RowsOf(gmail_rows, hid) # {} /\ gmail_rows' = gmail_rows
                 /\ RowsOf(gmail_rows, hid) # {} => inserted'[h] # "True"]_vars

\* two deliveries of one history id were stored: the first call returned True,
\* the second False, and the table holds one row
C24_Witness ==
    /\ hpc["h1"] = "done" /\ inserted["h1"] = "True"
    /\ hpc["h2"] = "done" /\ inserted["h2"] = "False"
    /\ request["h1"].history_id = request["h2"].history_id
    /\ Cardinality(RowsOf(gmail_rows, request["h1"].history_id)) = 1

\* the five steps in the order handle_pubsub calls them
HandlerOrder ==
    <<"verify_pubsub_jwt", "extract_pubsub_data", "find_user_id", "fetch_email_content",
      "store_email">>

IsPrefix(a, b) == Len(a) <= Len(b) /\ \A i \in DOMAIN a : a[i] = b[i]

\* C25: handle_pubsub calls verify JWT, extract Pub/Sub data, find user, fetch
\* email, store email in this order and stops at the first step that fails; it
\* answers 400 to a JWT verification error, 400 to any other EmailIngestError
\* (Gmail and database errors too), 404 when no user matches, having fetched
\* and stored nothing, 500 to any other exception, and 204 when the store step
\* returned, inserted or duplicate.
C25_HandlerOrderAndStatus ==
    /\ [](\A h \in Handlers :
             /\ IsPrefix(hsteps[h], HandlerOrder)
             /\ hpc[h] = "done" =>
                   /\ response[h].status \in {204, 400, 404, 500}
                   /\ hexc[h] = "JWTVerificationError"
                          => /\ response[h] = [status |-> 400, body |-> "Invalid JWT"]
                             /\ hsteps[h] = SubSeq(HandlerOrder, 1, 1)
                   /\ hexc[h] \in {"EmailIngestError", "GmailAPIError", "DatabaseError"}
                          => /\ response[h] = [status |-> 400, body |-> "Bad request"]
                             /\ hexc[h] = "EmailIngestError"
                                    => hsteps[h] = SubSeq(HandlerOrder, 1, 2)
                             /\ hexc[h] = "GmailAPIError"
                                    => hsteps[h] = SubSeq(HandlerOrder, 1, 4)
                             /\ hexc[h] = "DatabaseError" => Len(hsteps[h]) \in {3, 5}
                   /\ hexc[h] = "Exception" => response[h].status = 500
                   /\ response[h].status = 500 => hexc[h] = "Exception"
                   /\ response[h].status = 404
                          <=> /\ hexc[h] = "none"
                              /\ hsteps[h] = SubSeq(HandlerOrder, 1, 3)
                              /\ request[h].email_address \notin DOMAIN Users
                   /\ response[h].status = 204
                          <=> /\ hexc[h] = "none"
                              /\ hsteps[h] = HandlerOrder
                              /\ inserted[h] \in {"True", "False"}
                   /\ response[h].status = 400 => hexc[h] \in EmailIngestErrors
                   /\ inserted[h] # "not called" => response[h].status = 204)
    /\ [][\A h \in Handlers :
             /\ (hpc[h] = "done" /\ hpc'[h] = "done")
                    => hsteps'[h] = hsteps[h] /\ response'[h] = response[h]
             /\ (hpc[h] # "store" \/ hpc'[h] = "store")
                    => \/ gmail_rows' = gmail_rows
                       \/ \E g \in Handlers : hpc[g] = "store" /\ hpc'[g] = "done"]_vars

\* one delivery ended 204 on a duplicate, the other 404 with three steps called
C25_Witness ==
    \E h, g \in Handlers :
        /\ hpc[h] = "done" /\ response[h].status = 204 /\ inserted[h] = "False"
        /\ hpc[g] = "done" /\ response[g].status = 404 /\ Len(hsteps[g]) = 3

\* the control points inside a call of _process_email
Attempting(p) == ppc[p] \in {"check", "regex", "ollama", "insert", "mark_ok", "except"}

\* C26: a call of _process_email makes at most 3 attempts; a further attempt
\* follows only an exception; the call sleeps 1 before the second attempt and
\* 2 before the third and not after the last; and it always ends: by a return
\* after an attempt that succeeded, or after the third failure, the message
\* marked processed.
C26_ThreeAttemptsThenEnd ==
    /\ [](\A p \in Parsers :
             /\ attempt[p] <= max_retries - 1
             /\ calls[p].regex <= max_retries /\ calls[p].insert <= max_retries
             /\ calls[p].slept = SubSeq(<<1, 2>>, 1, attempt[p])
             /\ ppc[p] = "loop_except"
                    => /\ attempt[p] = max_retries - 1
                       /\ calls[p].slept = <<1, 2>>
                       /\ calls[p].mark >= 1)
    /\ [][\A p \in Parsers :
             /\ attempt'[p] > attempt[p]
                    => ppc[p] = "except" /\ attempt'[p] = attempt[p] + 1
             /\ (Attempting(p) /\ ppc'[p] = "pick") => ppc[p] = "mark_ok"
             /\ (Attempting(p) /\ ppc'[p] = "loop_except") => ppc[p] = "except"]_vars
    /\ \A p \in Parsers :
           Attempting(p) ~> (ppc[p] \in {"pick", "loop_except", "start"})

\* a call made three attempts, slept 1 and 2, and ended by the failure branch
C26_Witness ==
    \E p \in Parsers :
        /\ ppc[p] = "loop_except" /\ branch[p] = "failed"
        /\ attempt[p] = max_retries - 1 /\ calls[p].slept = <<1, 2>>

C28_UpdateThenCreateOnNotFound ==
    [][\A w \in Workers :
          (wpc[w] = "sync" /\ wpc'[w] = "reminders" /\ calendar_calls'[w] # <<>>
              /\ wcur[w].google_calendar_id # NoCalendarId) =>
              LET gid == wcur[w].google_calendar_id
                  log == calendar_calls'[w]
                  result == calendar_event_id'[w] IN
              /\ log[1] \in {"update ok", "update 404", "update error"}
              /\ log[1] = "update 404"
                     => /\ Len(log) = 2 /\ log[2] \in {"insert ok", "insert error"}
                        /\ log[2] = "insert ok"
                               => /\ result # NoCalendarId /\ result # gid
                                  /\ result \notin calendar /\ result \in calendar'
                                  /\ calendarCreated' = calendarCreated + 1
                        /\ log[2] = "insert error"
                               => result = NoCalendarId /\ calendar' = calendar
              /\ log[1] = "update ok"
                     => /\ log = <<"update ok">> /\ result = gid
                        /\ calendar' = calendar /\ calendarCreated' = calendarCreated
              /\ log[1] = "update error"
                     => /\ log = <<"update error">> /\ result = NoCalendarId
                        /\ calendar' = calendar /\ calendarCreated' = calendarCreated]_vars

\* the update of an entry the provider no longer holds was answered 404 and a
\* new entry was created, whose id is the result
C28_Witness ==
    \E w \in Workers :
        /\ wpc[w] = "reminders" /\ wcur[w].google_calendar_id = 1
        /\ calendar_calls[w] = <<"update 404", "insert ok">>
        /\ calendar_event_id[w] = 2 /\ calendar = {2}

\* the regex parse of the attempt has returned and nothing has replaced its
\* candidate yet
RegexReturned(p) ==
    \/ ppc[p] = "ollama"
    \/ ppc[p] = "insert" /\ ollama_result[p] = "not called"

\* C29: RegexParser.parse returns as confidence the sum of the weights of the
\* checks that succeeded (0.2 title, 0.4 date, 0.2 location, 0.2 preparation
\* items), with a candidate exactly when the sum is at least 0.4 and otherwise
\* no candidate and the sum below the threshold, for every combination.
C29_CandidateIffSumAtLeastMinViable ==
    \A p \in Parsers :
        RegexReturned(p) =>
            LET f == inbound_emails[email[p]].feat
                r == RegexParserParse(f) IN
            /\ r[2] = Confidence(f)
            /\ r[1] <=> Confidence(f) >= MinViable
            /\ parsed_event[p] = "regex" <=> Confidence(f) >= MinViable
            /\ ~r[1] => r[2] < MinViable

\* What parse does for every combination: a candidate exactly when the sum is
\* at least 0.4 and both a title and a date were found; at least 0.4 without
\* one of them, no candidate and confidence 0.0; below 0.4, no candidate and
\* the sum.
C29_CandidateNeedsTitleAndDate ==
    \A p \in Parsers :
        RegexReturned(p) =>
            LET f == inbound_emails[email[p]].feat
                r == RegexParserParse(f) IN
            /\ r[1] <=> (Confidence(f) >= MinViable /\ f.title /\ f.date)
            /\ parsed_event[p] = "regex" <=> r[1]
            /\ r[1] => r[2] = Confidence(f)
            /\ (Confidence(f) >= MinViable /\ ~r[1]) => r[2] = 0
            /\ Confidence(f) < MinViable => r[2] = Confidence(f)
            /\ ppc[p] = "ollama" <=> NeedsOllama(r[2])

\* the position of a word in the list of prefixes, 0 for a word that is none
RECURSIVE PrefixIndex(_, _)
PrefixIndex(word, i) ==
    IF i > Len(prefixes) THEN 0
    ELSE IF Lower(word) = prefixes[i] THEN i ELSE PrefixIndex(word, i + 1)

\* C30: _clean_subject strips the known prefixes (re:, fwd:, fw:, [reminder],
\* [event]) whatever their case and again and again until none is left, for
\* every order and nesting: the title alone is returned.
C30_AllPrefixesStripped ==
    subject_done => cleaned_subject = <<TitleWord>>

\* What one pass does: the prefixes are all stripped exactly when they stand
\* in the order of the list, each at most once; otherwise the result still
\* starts with a prefix.
C30_StrippedWhenInListOrder ==
    subject_done =>
        LET n == Len(subject) - 1
            inOrder == \A i \in 1..n : \A j \in 1..n :
                           i < j => PrefixIndex(subject[i], 1) < PrefixIndex(subject[j], 1) IN
        /\ inOrder <=> cleaned_subject = <<TitleWord>>
        /\ ~inOrder => PrefixIndex(Head(cleaned_subject), 1) # 0

\* C31: when the body holds several distinct dates, the start of the candidate
\* is the first date in pattern scan order (ISO, slash, dash, month name) and
\* its end the second; with exactly one distinct date the end equals the
\* start; a date that occurs again counts once.
C31_StartEndInScanOrder ==
    dates_done =>
        LET scanned == FirstOccurrences(Scan(DATE_PATTERNS, email_body))
        IN  /\ dates = scanned
            /\ scanned # <<>> =>
                  /\ parsed_data.start_ts = scanned[1]
                  /\ parsed_data.end_ts = IF Len(scanned) > 1 THEN scanned[2] ELSE scanned[1]

\* C31, what the code keeps: every distinct date is returned once, start and
\* end are two different dates of the body when it holds several, and the
\* end equals the start when it holds exactly one.
C31_StartEndAreDistinctDatesFound ==
    dates_done =>
        LET scanned == FirstOccurrences(Scan(DATE_PATTERNS, email_body))
        IN  /\ Range(dates) = Range(scanned)
            /\ Len(dates) = Len(scanned)
            /\ Len(scanned) > 1 => /\ parsed_data.start_ts \in Range(scanned)
                                   /\ parsed_data.end_ts \in Range(scanned)
                                   /\ parsed_data.end_ts # parsed_data.start_ts
            /\ Len(scanned) = 1 => /\ parsed_data.start_ts = scanned[1]
                                   /\ parsed_data.end_ts = scanned[1]

\* the value the object holds under a key, or absent for null and missing
Given(data, key) == IF data[key] = "value" THEN SampleValue(key) ELSE "absent"

\* C32: for every JSON object of the generative service, with start_time,
\* end_time and end_date each a value, null or missing, the start is
\* start_date plus start_time (00:00 when absent) and the end is end_date
\* (start_date when absent) plus end_time (the start_time when absent; with
\* no start_time either, its default or the end of the day).
C32_OllamaDefaults ==
    ollama_parsed.kind = "event" =>
        LET data == generated.data
            start_time == IF Given(data, "start_time") = "absent"
                          THEN "00:00" ELSE Given(data, "start_time")
        IN  /\ ollama_parsed.start_ts = [date |-> SampleValue("start_date"), time |-> start_time]
            /\ ollama_parsed.end_ts.date =
                  IF Given(data, "end_date") = "absent"
                  THEN SampleValue("start_date") ELSE Given(data, "end_date")
            /\ ollama_parsed.end_ts.time \in
                  IF Given(data, "end_time") # "absent" THEN {Given(data, "end_time")}
                  ELSE IF Given(data, "start_time") # "absent" THEN {start_time}
                  ELSE {"00:00", "23:59"}

\* C32, what the code keeps: the defaults apply to the keys that are missing
\* from the object, and a key that is present with null puts the text None
\* into the timestamp.
C32_DefaultsForMissingKeysOnly ==
    ollama_parsed.kind = "event" =>
        LET data == generated.data
            Absent(key) == data[key] = "missing"
            Text(key) == IF data[key] = "null" THEN "None" ELSE SampleValue(key)
        IN  /\ ollama_parsed.start_ts.date = SampleValue("start_date")
            /\ ollama_parsed.start_ts.time =
                  IF Absent("start_time") THEN "00:00" ELSE Text("start_time")
            /\ ollama_parsed.end_ts.date =
                  IF Absent("end_date") THEN SampleValue("start_date") ELSE Text("end_date")
            /\ ollama_parsed.end_ts.time =
                  IF ~Absent("end_time") THEN Text("end_time")
                  ELSE IF ~Absent("start_time") THEN Text("start_time")
                  ELSE "23:59"

\* C33: _parse_with_ollama never raises: invalid JSON, a timeout and a
\* transport error each give an absent result, and every result that is not
\* absent has confidence exactly 0.8.
C33_OllamaNeverRaises ==
    /\ ollama_parsed.kind # "raised"
    /\ (ollama_parsed.kind # "not called"
        /\ generated.kind \in {"invalid JSON", "TimeoutError", "RuntimeError"})
           => ollama_parsed.kind = "None"
    /\ ollama_parsed.kind = "event" => ollama_parsed.confidence = 8

C33_Witness ==
    /\ generated.kind = "RuntimeError"
    /\ ollama_parsed.kind = "None"

\* C34: the liveness probe of the generative service is made once, before the
\* polling loop, and never again per message; when it fails parse_queue ends
\* at once: it fetches no message, invokes no parser, inserts no event and
\* marks no message processed.
C34_ProbeOnceAndFailFast ==
    [][\A p \in Parsers :
          /\ health'[p].probes <= 1
          /\ ppc'[p] # "start" => health'[p].probes = 1
          /\ health[p].answer = "down" =>
                \/ health'[p] = NotProbed
                \/ UNCHANGED <<inbound_emails, events, pbatch, email, pfetched, phandled,
                               calls, parsed_event, ollama_result, okMarked, failMarked>>]_vars

C34_Witness ==
    /\ health["p1"] = [probes |-> 1, answer |-> "down"]
    /\ ppc["p1"] = "exit"
    /\ pfetched["p1"] = {}
    /\ \E m \in Msgs : ~inbound_emails[m].processed

\* the step is the upsert of _create_reminders into the slot of row i
UpsertsSlot(w, i) ==
    /\ wpc[w] = "reminders"
    /\ wpc'[w] = "mark_synced"
    /\ \E k \in DOMAIN RemindersToInsert(CurRecord(w), now, expo_push_token) :
          SameSlot(RemindersToInsert(CurRecord(w), now, expo_push_token)[k], reminders[i])

\* C35: the dispatcher sends a reminder to the push token stored on its row
\* when it was scheduled; a change of the user's token leaves the token of
\* every existing reminder row as it is, until the scheduler upserts the same
\* (event id, notify-at) slot again.
C35_TokenOfTheRowIsUsed ==
    [][/\ \A w \in Workers :
             (published'[w] # published[w] /\ published'[w] # NoPublish)
                => published'[w].to = reminders[published'[w].reminder_id].push_token
       /\ \A i \in DOMAIN reminders :
             reminders'[i].push_token # reminders[i].push_token
                => \E w \in Workers : UpsertsSlot(w, i)]_vars

C35_Witness ==
    /\ published["w1"] # NoPublish
    /\ published["w1"].to = "token"
    /\ reminders[published["w1"].reminder_id].push_token = "token"
    /\ expo_push_token = "token2"

\* C36: a failed call of the generative service never causes a retry of the
\* message: in the same attempt the coordinator inserts a needs_review
\* placeholder and marks the message processed; an attempt is only left for
\* a retry from the duplicate check, the regex parse or the event insert.
C36_OllamaFailureIsNoRetry ==
    [][\A p \in Parsers :
          /\ (ppc[p] = "ollama" /\ ppc'[p] # "start")
                => ppc'[p] = "insert" /\ attempt'[p] = attempt[p]
          /\ (ppc[p] = "insert" /\ ollama_result[p] = "absent" /\ ppc'[p] = "mark_ok")
                => /\ attempt'[p] = attempt[p]
                   /\ Len(events') = Len(events) + 1
                   /\ events'[Len(events')].source_msg_id = email[p]
                   /\ events'[Len(events')].status = "needs_review"
          /\ (ppc[p] = "mark_ok" /\ ollama_result[p] = "absent" /\ ppc'[p] # "start")
                => /\ attempt'[p] = attempt[p]
                   /\ calls'[p].mark = calls[p].mark + 1
                   /\ ppc'[p] = "pick"
          /\ (ppc'[p] = "except" /\ ppc[p] # "except")
                => ppc[p] \in {"check", "regex", "insert"}
          /\ attempt'[p] > attempt[p] => ppc[p] = "except"]_vars

C36_Witness ==
    /\ ppc["p1"] = "pick"
    /\ ollama_result["p1"] = "absent"
    /\ attempt["p1"] = 0
    /\ calls["p1"].ollama = 1
    /\ calls["p1"].insert = 1
    /\ inbound_emails[email["p1"]].processed
    /\ \E i \in DOMAIN events :
          events[i].source_msg_id = email["p1"] /\ events[i].status = "needs_review"

\* C37: within one pass of _process_single_event the event is marked synced
\* only after the reminder upsert for it completed without error; when the
\* reminder creation raises, the event is marked failed with the error
\* message and is not marked synced in that pass.
C37_SyncedOnlyAfterReminders ==
    [][/\ \A w \in Workers :
             LET i == CurRecord(w).id IN
             /\ (wpc[w] = "reminders" /\ wpc'[w] = "mark_synced")
                   => /\ exc'[w] = "none"
                      /\ reminders' = UpsertAll(reminders,
                                          RemindersToInsert(CurRecord(w), now, expo_push_token))
             /\ (wpc[w] = "reminders" /\ exc'[w] # "none") => wpc'[w] = "ev_failed"
             /\ (wpc'[w] = "mark_synced" /\ wpc[w] # "mark_synced") => wpc[w] = "reminders"
             /\ (wpc[w] = "ev_failed" /\ wpc'[w] = "ev_except")
                   => /\ events'[i].status # "synced"
                      /\ events' # events =>
                            /\ events'[i].status = "failed"
                            /\ events'[i].error_message = exc[w]
             /\ wpc[w] \in {"ev_failed", "ev_except"} => events'[i].status # "synced"
       /\ \A k \in DOMAIN events :
             (events'[k].status = "synced" /\ events[k].status # "synced")
                => \E w \in Workers : wpc[w] = "mark_synced" /\ CurRecord(w).id = k]_vars

C37_Witness ==
    /\ wpc["w1"] = "ev_except"
    /\ exc["w1"] = "TypeError"
    /\ events[CurRecord("w1").id].status = "failed"
    /\ events[CurRecord("w1").id].error_message = exc["w1"]
    /\ reminders = <<>>

\* C38: what _mark_email_processed persists for a message does not depend on
\* its success flag: with success=True and with success=False the row gets
\* the same fields, processed = true and a processed timestamp, so a failed
\* message cannot be told from a successful one in the store.
C38_SuccessFlagNotPersisted ==
    [][/\ ProcessedUpdate(TRUE) = ProcessedUpdate(FALSE)
       /\ \A m \in (okMarked' \ okMarked) \cup (failMarked' \ failMarked) :
             inbound_emails' = [inbound_emails EXCEPT ![m].processed = TRUE,
                                                      ![m].processed_at = "set"]
       /\ \A a \in okMarked', b \in failMarked' :
             /\ inbound_emails'[a].processed = inbound_emails'[b].processed
             /\ inbound_emails'[a].processed_at = inbound_emails'[b].processed_at]_vars

C38_Witness ==
    /\ okMarked = {"m1"}
    /\ failMarked = {"m2"}
    /\ inbound_emails["m1"].processed_at = "set"
    /\ inbound_emails["m2"].processed_at = "set"
    /\ inbound_emails["m1"].feat = inbound_emails["m2"].feat
    /\ inbound_emails["m1"] = inbound_emails["m2"]

\* C39: under any interleaving of two dispatcher processes working on the
\* same due reminder whose push sends always fail transiently, at most 5 push
\* send calls are issued for the reminder before it becomes failed.
C39_AtMostFiveSends ==
    \A i \in DOMAIN push_count :
        reminders[i].status = "pending" => push_count[i] <= 5

\* the worker is in a pass of _process_single_event for event k
InPass(w, k) ==
    /\ wpc[w] \in {"sync", "reminders", "mark_synced", "ev_failed", "ev_except"}
    /\ CurRecord(w).id = k

\* C40: an event with status needs_review is never selected by the reminder
\* worker: no calendar sync is attempted for it, no reminder row is ever
\* created for it, and the worker never changes its status.
C40_NeedsReviewNeverSelected ==
    \A k \in DOMAIN events :
        events[k].source_msg_id = "m1" =>
            /\ events[k].status = "needs_review"
            /\ \A w \in Workers : ~InPass(w, k)
            /\ \A w \in Workers :
                  wpc[w] = "ev_pick" => \A r \in wbatch[w] : r.id # k
            /\ \A i \in DOMAIN reminders : reminders[i].event_id # k

C40_Witness ==
    /\ events[1].status = "synced"
    /\ events[1].google_calendar_id # NoCalendarId
    /\ events[2].status = "needs_review"
    /\ reminders # <<>>
    /\ wpc["w1"] = "exit"

====
